---- MODULE Spec2Model ----
(***************************************************************************)
(* State-machine model of the StoryWeaver slide pipeline:                  *)
(*   - the slide store and its normalizer            (src/js/state.js)     *)
(*   - slide synthesis id assignment                 (src/js/analyzer.js,  *)
(*                                                    src/js/longcatService.js) *)
(*   - the video assembly loop exportVideo           (src/js/exporter.js)  *)
(*   - the export session / download button handlers (src/unnamed/part_000)*)
(*   - the Android download bridge saveBlob           (src/unnamed/part_000)*)
(*   - the slides an export works on                  (src/unnamed/part_000,*)
(*                                                     src/unnamed/part_001)*)
(* JavaScript `undefined`/`null` is the string "undefined"; JavaScript     *)
(* booleans stored in slide fields are the strings "true" / "false" so     *)
(* that an unset field can share the field's type.                         *)
(***************************************************************************)
EXTENDS Integers, Sequences, FiniteSets, TLC

VARIABLES
    slides,            \* state.slides: sequence of slide records
    activeSlideIndex,  \* state.activeSlideIndex (0-based, as in the source)
    nz,                \* harness of one call under study: its input, position, results
    ev,                \* one exportVideo call: its locals, recorder and signal
    ui,                \* downloadUi, the action buttons, currentStage, the pdf
    sessions,          \* the session objects ensureDownloadSession created
    calls,             \* the activations of startVideoExport
    tasks,             \* other asynchronous handlers in flight
    save               \* one saveBlob call and the native download it drives

storeVars == <<slides, activeSlideIndex>>
nzVars == <<nz>>
evVars == <<ev>>
sessionVars == <<ui, sessions, calls, tasks>>
bridgeVars == <<save>>
vars == <<slides, activeSlideIndex, nz, ev, ui, sessions, calls, tasks, save>>

-----------------------------------------------------------------------------
(* Values *)

Undefined == "undefined"

\* An unset `bullets` field; a sequence, so that it shares the field's type.
NoBullets == <<"undefined">>

Templates == {"text-image", "text-image-chart", "quad-grid"}

\* Template values a raw record may carry: the three known ones, an
\* unrecognized string, and none.
RawTemplates == Templates \cup {"bogus", Undefined}

\* Longest raw bullet list fed to the normalizer.
MaxBullets == 5

Bullet(i) == "b" \o ToString(i)

BulletList(n) == [i \in 1..n |-> Bullet(i)]

RawBullets == {NoBullets} \cup {BulletList(n) : n \in 0..MaxBullets}

RawChartEnabled == {"true", "false", Undefined}

\* chartSpec is modelled by its presence: "spec" or null ("none").
ChartSpecs == {"none", "spec"}

SlideIds == {"s1", "s2"}

RawSlides ==
    [id : SlideIds, template : RawTemplates, bullets : RawBullets,
     chartEnabled : RawChartEnabled, chartSpec : ChartSpecs]

-----------------------------------------------------------------------------
(* The normalizer, src/js/state.js:201-227 *)

normalizeTemplate(template) ==
    IF template = "text-image-chart" \/ template = "quad-grid"
    THEN template
    ELSE "text-image"

RECURSIVE PadBullets(_, _)
PadBullets(clone, targetLength) ==
    IF Len(clone) < targetLength
    THEN PadBullets(Append(clone, ""), targetLength)
    ELSE clone

\* A normalizer that pads but forgets to truncate.
normalizeBulletsNoSlice(bullets, template) ==
    PadBullets(bullets, IF template = "quad-grid" THEN 4 ELSE 3)

\* A normalizer whose slice starts one element too late.
normalizeBulletsSliceFromOne(bullets, template) ==
    LET targetLength == IF template = "quad-grid" THEN 4 ELSE 3
        padded == PadBullets(bullets, targetLength + 1)
    IN  SubSeq(padded, 2, targetLength + 1)

normalizeBulletsForTemplate(bullets, template) ==
    LET clone == bullets
        targetLength == IF template = "quad-grid" THEN 4 ELSE 3
    IN  SubSeq(PadBullets(clone, targetLength), 1, targetLength)

\* `slide.bullets || []`
BulletsOrEmpty(bullets) == IF bullets = NoBullets THEN <<>> ELSE bullets

\* A normalizer that leaves chartEnabled alone when the template is not a
\* chart template.
normalizeSlideKeepChart(slide) ==
    LET template == normalizeTemplate(slide.template)
        bullets == normalizeBulletsForTemplate(BulletsOrEmpty(slide.bullets), template)
        enabled == IF template = "text-image-chart" /\ slide.chartSpec # "none"
                   THEN (IF slide.chartEnabled # "false" THEN "true" ELSE "false")
                   ELSE slide.chartEnabled
    IN  [slide EXCEPT !.template = template, !.bullets = bullets,
                      !.chartEnabled = enabled]

normalizeSlide(slide) ==
    LET template == normalizeTemplate(slide.template)
        bullets == normalizeBulletsForTemplate(BulletsOrEmpty(slide.bullets), template)
        enabled1 == IF template # "text-image-chart" THEN "false"
                    ELSE slide.chartEnabled
        enabled2 == IF template = "text-image-chart" /\ slide.chartSpec # "none"
                    THEN (IF enabled1 # "false" THEN "true" ELSE "false")
                    ELSE enabled1
    IN  [slide EXCEPT !.template = template, !.bullets = bullets,
                      !.chartEnabled = enabled2]

-----------------------------------------------------------------------------
(* The slide store, src/js/state.js:52-82 and 149-153 *)

\* `state.slides.find(slide => slide.id === id)`: position of the first
\* slide with that id, 0 when there is none.
FindSlide(deck, id) ==
    IF \E i \in 1..Len(deck) : deck[i].id = id
    THEN CHOOSE i \in 1..Len(deck) :
            /\ deck[i].id = id
            /\ \A j \in 1..(i - 1) : deck[j].id # id
    ELSE 0

\* `Object.assign(target, updates)`: the fields of updates win.
ObjectAssign(target, updates) == updates @@ target

setSlides(deck) == [i \in 1..Len(deck) |-> normalizeSlide(deck[i])]

updateSlide(deck, id, updates) ==
    LET i == FindSlide(deck, id)
    IN  IF i = 0 THEN deck
        ELSE [deck EXCEPT ![i] = normalizeSlide(ObjectAssign(deck[i], updates))]

toggleSlideChart(deck, id, enabled) ==
    LET i == FindSlide(deck, id)
    IN  IF i = 0 THEN deck
        ELSE IF deck[i].template # "text-image-chart" THEN deck
        ELSE [deck EXCEPT ![i].chartEnabled = enabled]

\* The guard of reorderSlides (state.js:67); indices are 0-based.
ReorderApplies(deck, from, to) ==
    ~(from = to \/ from < 0 \/ to < 0 \/ from >= Len(deck) \/ to >= Len(deck))

\* a reorder that exchanges the two slides
reorderSlidesSwap(deck, from, to) ==
    [deck EXCEPT ![from + 1] = deck[to + 1], ![to + 1] = deck[from + 1]]

\* `updated.splice(from, 1)` then `updated.splice(to, 0, moved)`.
reorderSlides(deck, from, to) ==
    LET moved == deck[from + 1]
        rest == SubSeq(deck, 1, from) \o SubSeq(deck, from + 2, Len(deck))
    IN  SubSeq(rest, 1, to) \o <<moved>> \o SubSeq(rest, to + 1, Len(rest))

-----------------------------------------------------------------------------
(* Slide synthesis, src/js/longcatService.js:104-114 and                   *)
(* src/js/analyzer.js:28-62, 153-165                                       *)

\* `slide.id || fallback`, `slide.template || null`, ...
OrElse(value, fallback) == IF value = Undefined THEN fallback ELSE value

\* The candidate record generateSlidesWithLongcat returns for the raw
\* candidate at 1-based position `index` of the model's reply.
LongcatSlide(raw, index) ==
    [raw EXCEPT !.id = OrElse(raw.id, "longcat-" \o ToString(index)),
                !.template = OrElse(raw.template, Undefined)]

\* `typeof preferred === 'string' ? preferred.trim().toLowerCase() : ''`
TrimLower(preferred) ==
    CASE preferred = Undefined -> ""
      [] preferred = " Quad-Grid " -> "quad-grid"
      [] OTHER -> preferred

resolveTemplate(preferred, bullets, chartHint) ==
    LET normalized == TrimLower(preferred)
    IN  IF normalized \in Templates THEN normalized
        ELSE IF chartHint # "none" THEN "text-image-chart"
        ELSE IF Len(bullets) >= 4 THEN "quad-grid"
        ELSE "text-image"

\* The slide synthesizeSlides builds from the candidate at position `index`;
\* `detected` is what detectChartSpec returns for the slide's text.
SynthSlide(candidate, index) ==
    LET template == resolveTemplate(candidate.template, candidate.bullets,
                                    candidate.chartHint)
        chartSpec == IF template = "text-image-chart" THEN candidate.detected
                     ELSE "none"
    IN  [id |-> OrElse(candidate.id, "slide-" \o ToString(index)),
         template |-> template,
         bullets |-> candidate.bullets,
         chartEnabled |-> IF template = "text-image-chart" /\ chartSpec # "none"
                          THEN "true" ELSE "false",
         chartSpec |-> chartSpec]

\* generateSlidesWithLongcat followed by the `slides.map` of synthesizeSlides.
synthesizeSlides(raws) ==
    [i \in 1..Len(raws) |-> SynthSlide(LongcatSlide(raws[i], i), i)]

-----------------------------------------------------------------------------
(* Inputs of the store operations *)

IdAt(i) == IF i = 1 THEN "s1" ELSE "s2"

DeckSizes == 0..Cardinality(SlideIds)

\* Raw slide contents handed to setSlides: an unrecognized, a chart and a
\* grid template, bullets unset or too long, chartEnabled unset next to a
\* chart spec.
StoreRawContents ==
    [template : {"bogus", "text-image-chart", "quad-grid"},
     bullets : {NoBullets, BulletList(MaxBullets)},
     chartEnabled : {Undefined},
     chartSpec : {"spec"}]

StoreRawDecks ==
    UNION {{[i \in 1..n |-> [id |-> IdAt(i)] @@ content[i]] :
              content \in [1..n -> StoreRawContents]} : n \in DeckSizes}

\* Ids the summarizer's candidates carry: none, a repeated one, and one
\* that collides with a generated id.
CandidateIds == {Undefined, "a", "longcat-2"}

StoreCandidates ==
    {c \in [id : CandidateIds, template : {Undefined, "text-image-chart"},
            bullets : {<<>>}, chartHint : {"none"}, detected : ChartSpecs] :
        c.template = Undefined => c.detected = "none"}

CandidateLists == UNION {[1..n -> StoreCandidates] : n \in DeckSizes}

NoUpdate == [f \in {} |-> Undefined]

\* The `updates` objects of updateSlide's callers: any combination of a
\* template, a bullet list and a chartEnabled flag
\* (src/unnamed/part_000:414-448, 890-905, 942-948), or a recomputed chart
\* (src/unnamed/part_000:1494-1498).
Updates ==
    {t @@ b @@ c :
        t \in {NoUpdate} \cup {[template |-> v] : v \in RawTemplates},
        b \in {NoUpdate} \cup {[bullets |-> v] : v \in {<<>>, BulletList(MaxBullets)}},
        c \in {NoUpdate} \cup {[chartEnabled |-> v] : v \in {"true", "false"}}}
    \cup {[chartSpec |-> v, chartEnabled |-> IF v = "none" THEN "false" ELSE "true"] :
            v \in ChartSpecs}

DeckIds(deck) == {deck[i].id : i \in 1..Len(deck)}

NzIdle == [stage |-> "idle"]

EvIdle == [pc |-> "idle"]
SaveIdle == [pc |-> "idle"]
UiUnused == [button |-> "none"]
TasksIdle == [synthesis |-> 0, pdfLoads |-> 0, drawing |-> 0, saving |-> 0]

-----------------------------------------------------------------------------
(* The store as a state machine *)

Init ==
    /\ slides = <<>>
    /\ activeSlideIndex = 0
    /\ nz = NzIdle
    /\ ev = EvIdle
    /\ ui = UiUnused
    /\ sessions = <<>>
    /\ calls = <<>>
    /\ tasks = TasksIdle
    /\ save = SaveIdle

\* setSlides, state.js:52-56.
SetSlides ==
    \E deck \in StoreRawDecks :
        /\ slides' = setSlides(deck)
        /\ activeSlideIndex' = 0
        /\ UNCHANGED <<nzVars, bridgeVars, evVars, sessionVars>>

\* The success path of the render-start handler: synthesizeSlides, then
\* setSlides (src/unnamed/part_000:767-779).
RenderStartCommit ==
    \E raws \in CandidateLists :
        /\ slides' = setSlides(synthesizeSlides(raws))
        /\ activeSlideIndex' = 0
        /\ UNCHANGED <<nzVars, bridgeVars, evVars, sessionVars>>

\* updateSlide, state.js:58-64.
UpdateSlide ==
    \E id \in DeckIds(slides) \cup {"missing"}, updates \in Updates :
        /\ slides' = updateSlide(slides, id, updates)
        /\ UNCHANGED <<activeSlideIndex, nzVars, bridgeVars, evVars, sessionVars>>

\* reorderSlides, state.js:66-74.
ReorderSlides ==
    \E from \in -1..Len(slides), to \in -1..Len(slides) :
        /\ IF ReorderApplies(slides, from, to)
           THEN /\ slides' = reorderSlides(slides, from, to)
                /\ activeSlideIndex' = to
           ELSE UNCHANGED storeVars
        /\ UNCHANGED <<nzVars, bridgeVars, evVars, sessionVars>>

\* toggleSlideChart, state.js:76-82.
ToggleSlideChart ==
    \E id \in DeckIds(slides) \cup {"missing"}, enabled \in {"true", "false"} :
        /\ slides' = toggleSlideChart(slides, id, enabled)
        /\ UNCHANGED <<activeSlideIndex, nzVars, bridgeVars, evVars, sessionVars>>

\* a setActiveSlide that stores whatever index it is given
SetActiveSlideUnchecked ==
    \E index \in -1..Len(slides) :
        /\ activeSlideIndex' = index
        /\ UNCHANGED <<slides, nzVars, bridgeVars, evVars, sessionVars>>

\* setActiveSlide, state.js:149-153.
SetActiveSlide ==
    \E index \in -1..Len(slides) :
        /\ activeSlideIndex' =
              IF index < 0 \/ index >= Len(slides) THEN activeSlideIndex ELSE index
        /\ UNCHANGED <<slides, nzVars, bridgeVars, evVars, sessionVars>>

Next ==
    \/ SetSlides
    \/ RenderStartCommit
    \/ UpdateSlide
    \/ ReorderSlides
    \/ ToggleSlideChart
    \/ SetActiveSlide

Spec == Init /\ [][Next]_vars

-----------------------------------------------------------------------------
(* The normalizer applied once and twice to every raw slide record *)

NormalizeInit ==
    /\ slides = <<>>
    /\ activeSlideIndex = 0
    /\ ev = EvIdle
    /\ ui = UiUnused
    /\ sessions = <<>>
    /\ calls = <<>>
    /\ tasks = TasksIdle
    /\ save = SaveIdle
    /\ \E raw \in RawSlides :
          nz = [stage |-> "raw", input |-> raw, once |-> raw, twice |-> raw]

NormalizeOnce ==
    /\ nz.stage = "raw"
    /\ nz' = [nz EXCEPT !.stage = "once", !.once = normalizeSlide(nz.input)]
    /\ UNCHANGED <<storeVars, evVars, sessionVars, bridgeVars>>

NormalizeTwice ==
    /\ nz.stage = "once"
    /\ nz' = [nz EXCEPT !.stage = "twice", !.twice = normalizeSlide(nz.once)]
    /\ UNCHANGED <<storeVars, evVars, sessionVars, bridgeVars>>

NormalizeNext == NormalizeOnce \/ NormalizeTwice

NormalizeSpec == NormalizeInit /\ [][NormalizeNext]_vars

-----------------------------------------------------------------------------
(* Claims about the slide store and the normalizer *)

Capacity(template) == IF template = "quad-grid" THEN 4 ELSE 3

\* C1: in every state reachable through setSlides, updateSlide,
\* reorderSlides and toggleSlideChart, every slide of the deck has exactly
\* 4 bullets when its template is quad-grid and exactly 3 otherwise.
C1_BulletsMatchTemplate ==
    \A i \in 1..Len(slides) :
        /\ slides[i].bullets # NoBullets
        /\ Len(slides[i].bullets) = Capacity(slides[i].template)

\* C1 witness: the deck holds a grid slide whose five raw bullets were cut
\* to four and a non-grid slide whose missing bullets were padded to three.
C1_Witness ==
    /\ \E i \in 1..Len(slides) :
          /\ slides[i].template = "quad-grid"
          /\ slides[i].bullets = BulletList(4)
    /\ \E i \in 1..Len(slides) :
          /\ slides[i].template # "quad-grid"
          /\ slides[i].bullets = <<"", "", "">>

\* C2: in every reachable state of the store, a slide whose template is not
\* text-image-chart has chartEnabled false.
C2_ChartOffUnlessChartTemplate ==
    \A i \in 1..Len(slides) :
        slides[i].template # "text-image-chart" => slides[i].chartEnabled = "false"

\* C2 witness: a slide that carries a chart spec under a non-chart template,
\* next to a chart slide whose chart is switched on.
C2_Witness ==
    /\ \E i \in 1..Len(slides) :
          /\ slides[i].template = "quad-grid"
          /\ slides[i].chartSpec = "spec"
          /\ slides[i].chartEnabled = "false"
    /\ \E i \in 1..Len(slides) :
          /\ slides[i].template = "text-image-chart"
          /\ slides[i].chartEnabled = "true"

\* C3: normalizeSlide is idempotent: normalizing a normalized record changes
\* no field.
C3_NormalizeIdempotent ==
    nz.stage = "twice" => nz.twice = nz.once

\* C3 witness: a record that the first normalization changed in template,
\* bullets and chartEnabled has been normalized twice.
C3_Witness ==
    /\ nz.stage = "twice"
    /\ nz.input.template # nz.once.template
    /\ nz.input.bullets # nz.once.bullets
    /\ nz.input.chartEnabled # nz.once.chartEnabled

\* C4: no two slides of the deck share an id, whatever ids the summarizer's
\* candidates carry.
C4_IdsUnique ==
    \A i \in 1..Len(slides) : \A j \in 1..Len(slides) :
        i # j => slides[i].id # slides[j].id

-----------------------------------------------------------------------------
(* exportVideo: one call, from the call to the settlement of its promise.  *)
(* A step runs from one await to the next; a continuation that follows a   *)
(* settled promise runs before any other event and is part of the step.    *)

fps == 30
fadeFrames == 12
fadeTransitionFrames == 12
DefaultDurationMs == 6500

MaxExportSlides == 2
ExportDurations == {20, 50}
ExportDecks == UNION {[1..n -> ExportDurations] : n \in 0..MaxExportSlides}

Ceil(num, den) == (num + den - 1) \div den
Min(a, b) == IF a < b THEN a ELSE b
Max(a, b) == IF a > b THEN a ELSE b

RECURSIVE SumSeq(_)
SumSeq(q) == IF q = <<>> THEN 0 ELSE Head(q) + SumSeq(Tail(q))

frameBudget(duration) ==
    LET durationMs == IF duration = 0 THEN DefaultDurationMs ELSE duration
    IN  Ceil(durationMs * fps, 1000)

frameBudgets(durations) == [i \in 1..Len(durations) |-> frameBudget(durations[i])]

totalFrames(durations) ==
    SumSeq(frameBudgets(durations)) + Max(0, Len(durations) - 1) * fadeFrames

\* Math.floor((renderedFrames / totalFrames) * 100) in doubles equals the
\* integer quotient for every total below 50 frames
emitProgress(e) ==
    LET total == totalFrames(e.durations)
        percent == Min(100, Max(0, (e.renderedFrames * 100) \div total))
    IN  IF total <= 0 \/ percent = e.lastProgress
        THEN e
        ELSE [e EXCEPT !.lastProgress = percent,
                       !.progress = Append(e.progress, percent)]

stopRecorder(state) == IF state = "recording" THEN "stopping" ELSE state

\* the signal's abort event reaching the handler exportVideo registered
abortHandler(e) ==
    [e EXCEPT !.cancelled = TRUE, !.recorder = stopRecorder(e.recorder)]

\* an exception that leaves the render loop past its finally block
ThrowFromLoopPastFinally(e, error) ==
    [e EXCEPT !.pc = "settled", !.outcome = error]

\* an exception leaving the render loop: the finally block, then rejection
ThrowFromLoop(e, error) ==
    [e EXCEPT !.recorder = stopRecorder(e.recorder),
              !.abortHandlerAttached = FALSE,
              !.pc = "settled", !.outcome = error]

\* the statements after `await recordingComplete`
AfterRecording(e) ==
    IF e.cancelled \/ e.aborted
    THEN [e EXCEPT !.pc = "settled", !.outcome = "AbortError"]
    ELSE [e EXCEPT !.pc = "settled", !.outcome = "resolved",
                   !.progress = Append(e.progress, 100)]

\* a normal exit of the loop that leaves the recorder running
FinalizeWithoutStop(e) ==
    [e EXCEPT !.abortHandlerAttached = FALSE, !.pc = "finalizing"]

\* the finally block on a normal exit of the loop, then `await recordingComplete`
Finalize(e) ==
    LET f == [e EXCEPT !.recorder = stopRecorder(e.recorder),
                       !.abortHandlerAttached = FALSE,
                       !.pc = "finalizing"]
    IN  IF f.recorder = "stopped" THEN AfterRecording(f) ELSE f

waitForFrame(e, at) ==
    IF e.aborted
    THEN ThrowFromLoop(e, "AbortError")
    ELSE [e EXCEPT !.pc = at, !.waitListenerAttached = TRUE]

RECURSIVE StartSlide(_)
\* fadeTransition up to its first await, or straight back into the slide loop
EnterFadeSkipped(e) == StartSlide([e EXCEPT !.slideIndex = e.slideIndex + 1])

EnterFade(e) ==
    IF e.slideIndex + 1 >= Len(e.durations)
    THEN StartSlide([e EXCEPT !.slideIndex = e.slideIndex + 1])
    ELSE [e EXCEPT !.pc = "fadeDraw"]

AfterFrames(e) == IF e.cancelled THEN Finalize(e) ELSE EnterFade(e)

\* the head of the frame loop for frame e.frame of slide e.slideIndex
FrameLoop(e) ==
    IF e.frame < frameBudgets(e.durations)[e.slideIndex + 1]
    THEN IF e.cancelled THEN AfterFrames(e)
         ELSE IF e.aborted THEN AfterFrames([e EXCEPT !.cancelled = TRUE])
         ELSE [e EXCEPT !.pc = "draw"]
    ELSE AfterFrames(e)

\* the head of the slide loop for slide e.slideIndex
StartSlide(e) ==
    IF e.slideIndex >= Len(e.durations) \/ e.cancelled
    THEN Finalize(e)
    ELSE FrameLoop([e EXCEPT !.frame = 0])

ExportVideoInit ==
    /\ slides = <<>>
    /\ activeSlideIndex = 0
    /\ nz = NzIdle
    /\ ui = UiUnused
    /\ sessions = <<>>
    /\ calls = <<>>
    /\ tasks = TasksIdle
    /\ save = SaveIdle
    /\ \E durations \in ExportDecks, available \in BOOLEAN :
          ev = [pc |-> "start", durations |-> durations,
                mediaRecorder |-> available,
                aborted |-> FALSE, abortedAt |-> "never", cancelled |-> FALSE,
                recorder |-> "inactive",
                abortHandlerAttached |-> FALSE, waitListenerAttached |-> FALSE,
                slideIndex |-> 0, frame |-> 0, fadeFrame |-> 0,
                renderedFrames |-> 0, lastProgress |-> -1, progress |-> <<>>,
                outcome |-> "pending"]

\* exportVideo is called: everything up to the first await
EvCall ==
    /\ ev.pc = "start"
    /\ ev' = IF ~ev.mediaRecorder
             THEN [ev EXCEPT !.pc = "settled", !.outcome = "Error"]
             ELSE IF ev.aborted
             THEN [abortHandler(ev) EXCEPT !.pc = "settled", !.outcome = "AbortError"]
             ELSE StartSlide([ev EXCEPT !.abortHandlerAttached = TRUE,
                                        !.recorder = "recording",
                                        !.lastProgress = 0,
                                        !.progress = <<0>>,
                                        !.slideIndex = 0])
    /\ UNCHANGED <<storeVars, nzVars, bridgeVars, sessionVars>>

\* the caller's controller aborts the signal: its listeners run in the order
\* they were registered (the listener of waitForFrame cleans up and rejects),
\* then the continuations of what they settled
EvAbort ==
    /\ ev.pc \in {"start", "draw", "wait", "fadeDraw", "fadeWait", "finalizing"}
    /\ ~ev.aborted
    /\ LET a == [ev EXCEPT !.aborted = TRUE, !.abortedAt = ev.pc]
           h == IF a.abortHandlerAttached
                THEN [abortHandler(a) EXCEPT !.abortHandlerAttached = FALSE]
                ELSE a
       IN  ev' = IF h.waitListenerAttached
                 THEN ThrowFromLoop([h EXCEPT !.waitListenerAttached = FALSE],
                                    "AbortError")
                 ELSE h
    /\ UNCHANGED <<storeVars, nzVars, bridgeVars, sessionVars>>

\* drawSlideToCanvas of the frame loop resolves
EvDrawDone ==
    /\ ev.pc = "draw"
    /\ ev' = waitForFrame(ev, "wait")
    /\ UNCHANGED <<storeVars, nzVars, bridgeVars, sessionVars>>

\* a pending drawSlideToCanvas rejects
EvDrawThrows ==
    /\ ev.pc \in {"draw", "fadeDraw"}
    /\ ev' = ThrowFromLoop(ev, "Error")
    /\ UNCHANGED <<storeVars, nzVars, bridgeVars, sessionVars>>

\* the timer of the frame loop's waitForFrame fires
EvFrameTimer ==
    /\ ev.pc = "wait"
    /\ LET w == [ev EXCEPT !.waitListenerAttached = FALSE,
                           !.renderedFrames = ev.renderedFrames + 1]
           p == emitProgress(w)
       IN  ev' = FrameLoop([p EXCEPT !.frame = p.frame + 1])
    /\ UNCHANGED <<storeVars, nzVars, bridgeVars, sessionVars>>

\* drawSlideToCanvas of fadeTransition resolves
EvFadeDrawDone ==
    /\ ev.pc = "fadeDraw"
    /\ ev' = waitForFrame([ev EXCEPT !.fadeFrame = 0], "fadeWait")
    /\ UNCHANGED <<storeVars, nzVars, bridgeVars, sessionVars>>

\* the timer of a fade frame's waitForFrame fires
EvFadeTimer ==
    /\ ev.pc = "fadeWait"
    /\ LET w == [ev EXCEPT !.waitListenerAttached = FALSE,
                           !.renderedFrames = ev.renderedFrames + 1]
           p == emitProgress(w)
           n == [p EXCEPT !.fadeFrame = p.fadeFrame + 1]
       IN  ev' = IF n.fadeFrame < fadeTransitionFrames
                 THEN waitForFrame(n, "fadeWait")
                 ELSE StartSlide([n EXCEPT !.slideIndex = n.slideIndex + 1])
    /\ UNCHANGED <<storeVars, nzVars, bridgeVars, sessionVars>>

\* the recorder delivers its stop event
EvRecorderStop ==
    /\ ev.pc # "idle"
    /\ ev.recorder = "stopping"
    /\ LET r == [ev EXCEPT !.recorder = "stopped"]
       IN  ev' = IF r.pc = "finalizing" THEN AfterRecording(r) ELSE r
    /\ UNCHANGED <<storeVars, nzVars, bridgeVars, sessionVars>>

ExportVideoNext ==
    \/ EvCall
    \/ EvAbort
    \/ EvDrawDone
    \/ EvDrawThrows
    \/ EvFrameTimer
    \/ EvFadeDrawDone
    \/ EvFadeTimer
    \/ EvRecorderStop

ExportVideoSpec == ExportVideoInit /\ [][ExportVideoNext]_vars

\* C5: where MediaRecorder exists, a call of exportVideo whose signal was
\* aborted before its promise settled (before the call, during a slide draw,
\* a frame wait, a fade or the finalizing wait) has rejected with the
\* AbortError and has not resolved with a blob.
C5_AbortedCallRejectsWithAbortError ==
    (ev.pc = "settled" /\ ev.mediaRecorder /\ ev.aborted)
        => ev.outcome = "AbortError"

-----------------------------------------------------------------------------
(* The export session of the page: downloadUi, the export buttons and the  *)
(* handlers that start, cancel and reset an export.  exportVideo and       *)
(* saveBlob are in flight between two steps of startVideoExport; how they  *)
(* settle is left open here.  A step is one event handler, or the          *)
(* continuation of a handler after an awaited promise settled.             *)

MaxAttempts == 2
MaxSynthesis == 1
MaxPdfLoads == 1
MaxStoryboards == 1

\* the deck a finished synthesis hands to setSlides
SynthesizedDeck ==
    <<[id |-> "s1", template |-> "text-image", bullets |-> NoBullets,
       chartEnabled |-> Undefined, chartSpec |-> "none"]>>

World == [ui |-> ui, sessions |-> sessions, slides |-> slides]

hasPdfPayload(w) == w.ui.pdf

setStage(w, nextStage) == [w EXCEPT !.ui.stage = nextStage]

\* applyStage leaves the new-session trigger disabled exactly in this stage
newSessionTriggerDisabled(u) == u.stage = "rendering"

setDownloadState(w, state) ==
    LET busy == state \in {"rendering", "saving"}
    IN  [w EXCEPT !.ui.button = state,
                  !.ui.previewSaveDisabled = IF busy THEN TRUE ELSE Len(w.slides) = 0]

disposeKeepsReference(w) ==
    IF w.ui.session # 0
    THEN [w EXCEPT !.sessions[w.ui.session].blob = FALSE]
    ELSE w

disposeDownloadSession(w) ==
    IF w.ui.session # 0
    THEN [w EXCEPT !.sessions[w.ui.session].blob = FALSE, !.ui.session = 0]
    ELSE w

resetDownloadButton(w) == setDownloadState(disposeDownloadSession(w), "idle")

\* a fresh session object with a fresh controller becomes downloadUi.session
ensureDownloadSession(w) ==
    [w EXCEPT !.sessions = Append(w.sessions,
                                  [phase |-> "idle", blob |-> FALSE, aborted |-> FALSE]),
              !.ui.session = Len(w.sessions) + 1]

updateActionStates(w) ==
    LET hasSlides == Len(w.slides) > 0
    IN  [w EXCEPT !.ui.exportVideoDisabled = ~hasSlides,
                  !.ui.exportAltDisabled = ~hasSlides,
                  !.ui.previewSaveDisabled = ~hasSlides]

\* the store's subscriber on a change of state.slides
SlidesSubscriber(w) ==
    LET a == updateActionStates(w)
        b == IF Len(a.slides) > 0 THEN setStage(a, "ready")
             ELSE IF hasPdfPayload(a) THEN setStage(a, "file-ready")
             ELSE IF a.ui.stage # "rendering" THEN setStage(a, "idle")
             ELSE a
    IN  IF Len(b.slides) = 0 THEN resetDownloadButton(b) ELSE b

\* the store's subscriber on a change of state.pdf or state.pdfPages
PdfSubscriber(w) ==
    LET a == IF ~w.ui.pdf /\ Len(w.slides) = 0 THEN setStage(w, "idle")
             ELSE IF w.ui.pdf /\ Len(w.slides) = 0 /\ w.ui.stage = "idle"
                  THEN setStage(w, "file-ready")
             ELSE w
    IN  IF a.ui.renderBusy THEN a
        ELSE [a EXCEPT !.ui.renderStartDisabled = ~hasPdfPayload(a)]

StoreSetSlides(w, deck) == SlidesSubscriber([w EXCEPT !.slides = setSlides(deck)])

StoreSetPdf(w, payload) == PdfSubscriber([w EXCEPT !.ui.pdf = payload])

resetSessionState(w) ==
    LET a == [w EXCEPT !.ui.renderBusy = FALSE, !.ui.renderStartDisabled = TRUE]
        b == StoreSetSlides(a, <<>>)
        c == StoreSetPdf(b, FALSE)
    IN  resetDownloadButton(setStage(c, "idle"))

cancelActiveDownload(w) ==
    IF w.ui.session = 0 \/ w.sessions[w.ui.session].aborted
    THEN w
    ELSE [w EXCEPT !.sessions[w.ui.session].aborted = TRUE]

\* startVideoExport up to `await exportVideo(...)`; edited tells whether the
\* editor held changes that syncSlidesFromEditor writes back with updateSlide
startVideoExport(w, edited) ==
    IF Len(w.slides) = 0
    THEN w
    ELSE LET a == IF edited THEN SlidesSubscriber(w) ELSE w
             b == ensureDownloadSession(a)
             c == [b EXCEPT !.sessions[b.ui.session].phase = "rendering"]
         IN  setDownloadState(c, "rendering")

\* the catch block of startVideoExport
CatchExportError(w, abortError) ==
    IF abortError THEN resetDownloadButton(w) ELSE setDownloadState(w, "error")

\* startVideoExport from the resolution of saveBlob onwards
AfterSaveBlob(w, i) ==
    IF w.sessions[i].aborted
    THEN CatchExportError(w, TRUE)
    ELSE setDownloadState([w EXCEPT !.sessions[i].phase = "complete"], "complete")

\* session.blob = blob and what follows, up to `await saveBlob(...)` or the end
StoreExportedBlob(w, i) ==
    LET a == [w EXCEPT !.sessions[i].blob = TRUE, !.sessions[i].phase = "rendered"]
        b == setDownloadState(a, "rendering")
        c == setDownloadState([b EXCEPT !.sessions[i].phase = "saving"], "saving")
    IN  IF c.ui.bridge THEN c
        ELSE setDownloadState([c EXCEPT !.sessions[i].phase = "complete"], "complete")

\* startVideoExport from the resolution of exportVideo up to its next await
AfterExportVideo(w, i) ==
    IF w.sessions[i].aborted
    THEN CatchExportError(w, TRUE)
    ELSE StoreExportedBlob(w, i)

DownloadInit ==
    /\ slides = <<>>
    /\ activeSlideIndex = 0
    /\ nz = NzIdle
    /\ ev = EvIdle
    /\ \E bridge \in BOOLEAN :
          ui = [button |-> "idle", session |-> 0,
                exportVideoDisabled |-> TRUE, exportAltDisabled |-> TRUE,
                previewSaveDisabled |-> TRUE,
                renderStartDisabled |-> TRUE, renderBusy |-> FALSE,
                stage |-> "idle", pdf |-> FALSE, bridge |-> bridge]
    /\ sessions = <<>>
    /\ calls = <<>>
    /\ tasks = TasksIdle
    /\ save = SaveIdle

Commit(w) ==
    /\ ui' = w.ui
    /\ sessions' = w.sessions
    /\ slides' = w.slides

NewCall == [pc |-> "exportVideo", video |-> "pending", reported |-> "none"]

InFlight(i) == calls[i].pc \in {"exportVideo", "saveBlob"}

\* click on the export button
ExportVideoClick ==
    /\ ~ui.exportVideoDisabled
    /\ \E edited \in BOOLEAN :
          LET starts == ui.button \notin {"rendering", "saving", "complete"}
                        /\ Len(slides) > 0
              w == IF ui.button \in {"rendering", "saving"}
                   THEN cancelActiveDownload(World)
                   ELSE IF ui.button = "complete" THEN World
                   ELSE IF ui.button = "error"
                        THEN startVideoExport(resetDownloadButton(World), edited)
                   ELSE startVideoExport(World, edited)
          IN  /\ starts => Len(sessions) < MaxAttempts
              /\ Commit(w)
              /\ calls' = IF starts THEN Append(calls, NewCall) ELSE calls
    /\ UNCHANGED <<activeSlideIndex, nzVars, bridgeVars, evVars, tasks>>

\* click on the save button of the preview
PreviewSaveClick ==
    /\ ~ui.previewSaveDisabled
    /\ \E edited \in BOOLEAN :
          LET starts == Len(slides) > 0 /\ ui.button \notin {"rendering", "saving"}
              w == IF ~starts THEN World
                   ELSE IF ui.button \in {"complete", "error"}
                        THEN startVideoExport(resetDownloadButton(World), edited)
                   ELSE startVideoExport(World, edited)
          IN  /\ starts => Len(sessions) < MaxAttempts
              /\ Commit(w)
              /\ calls' = IF starts THEN Append(calls, NewCall) ELSE calls
    /\ UNCHANGED <<activeSlideIndex, nzVars, bridgeVars, evVars, tasks>>

\* exportVideo reports progress to updateRenderProgress
ExportVideoProgress ==
    \E i \in 1..Len(calls) :
        /\ calls[i].pc = "exportVideo"
        /\ ~sessions[i].aborted
        /\ Commit(setDownloadState(World, "rendering"))
        /\ UNCHANGED <<activeSlideIndex, nzVars, bridgeVars, evVars, calls, tasks>>

\* exportVideo resolves with a blob, which it does only while its signal is
\* not aborted, and startVideoExport continues
ExportVideoResolves ==
    \E i \in 1..Len(calls) :
        /\ calls[i].pc = "exportVideo"
        /\ ~sessions[i].aborted
        /\ Commit(AfterExportVideo(World, i))
        /\ calls' = [calls EXCEPT ![i] =
               IF sessions[i].aborted
               THEN [pc |-> "returned", video |-> "resolved", reported |-> "cancelled"]
               ELSE IF ui.bridge
               THEN [pc |-> "saveBlob", video |-> "resolved", reported |-> "none"]
               ELSE [pc |-> "returned", video |-> "resolved", reported |-> "complete"]]
        /\ UNCHANGED <<activeSlideIndex, nzVars, bridgeVars, evVars, tasks>>

\* exportVideo rejects with its AbortError
ExportVideoAborts ==
    \E i \in 1..Len(calls) :
        /\ calls[i].pc = "exportVideo"
        /\ sessions[i].aborted
        /\ Commit(CatchExportError(World, TRUE))
        /\ calls' = [calls EXCEPT ![i] =
               [pc |-> "returned", video |-> "AbortError", reported |-> "cancelled"]]
        /\ UNCHANGED <<activeSlideIndex, nzVars, bridgeVars, evVars, tasks>>

\* exportVideo rejects with another error (no MediaRecorder, a draw that threw)
ExportVideoFails ==
    \E i \in 1..Len(calls) :
        /\ calls[i].pc = "exportVideo"
        /\ Commit(CatchExportError(World, FALSE))
        /\ calls' = [calls EXCEPT ![i] =
               [pc |-> "returned", video |-> "Error", reported |-> "failed"]]
        /\ UNCHANGED <<activeSlideIndex, nzVars, bridgeVars, evVars, tasks>>

\* saveBlob reports written bytes
SaveBlobProgress ==
    \E i \in 1..Len(calls) :
        /\ calls[i].pc = "saveBlob"
        /\ Commit(setDownloadState(World, "saving"))
        /\ UNCHANGED <<activeSlideIndex, nzVars, bridgeVars, evVars, calls, tasks>>

\* saveBlob resolves and startVideoExport runs to its end
SaveBlobResolves ==
    \E i \in 1..Len(calls) :
        /\ calls[i].pc = "saveBlob"
        /\ Commit(AfterSaveBlob(World, i))
        /\ calls' = [calls EXCEPT ![i].pc = "returned",
                                  ![i].reported = IF sessions[i].aborted
                                                  THEN "cancelled" ELSE "complete"]
        /\ UNCHANGED <<activeSlideIndex, nzVars, bridgeVars, evVars, tasks>>

\* saveBlob rejects with its AbortError or with the platform's
\* 'Download cancelled by user'
SaveBlobCancelled ==
    \E i \in 1..Len(calls) :
        /\ calls[i].pc = "saveBlob"
        /\ Commit(CatchExportError(World, TRUE))
        /\ calls' = [calls EXCEPT ![i].pc = "returned", ![i].reported = "cancelled"]
        /\ UNCHANGED <<activeSlideIndex, nzVars, bridgeVars, evVars, tasks>>

\* saveBlob rejects with another error
SaveBlobFails ==
    \E i \in 1..Len(calls) :
        /\ calls[i].pc = "saveBlob"
        /\ Commit(CatchExportError(World, FALSE))
        /\ calls' = [calls EXCEPT ![i].pc = "returned", ![i].reported = "failed"]
        /\ UNCHANGED <<activeSlideIndex, nzVars, bridgeVars, evVars, tasks>>

\* click on the storyboard button: exportStoryboard starts drawing
ExportAltClick ==
    /\ ~ui.exportAltDisabled
    /\ Len(slides) > 0
    /\ tasks.drawing + tasks.saving < MaxStoryboards
    /\ ui' = [ui EXCEPT !.exportAltDisabled = TRUE]
    /\ tasks' = [tasks EXCEPT !.drawing = tasks.drawing + 1]
    /\ UNCHANGED <<storeVars, nzVars, bridgeVars, evVars, sessions, calls>>

\* exportStoryboard resolves; the handler saves through the bridge or
\* triggers the download and ends
StoryboardDrawn ==
    /\ tasks.drawing > 0
    /\ IF ui.bridge
       THEN /\ tasks' = [tasks EXCEPT !.drawing = tasks.drawing - 1,
                                      !.saving = tasks.saving + 1]
            /\ ui' = ui
       ELSE /\ tasks' = [tasks EXCEPT !.drawing = tasks.drawing - 1]
            /\ ui' = [ui EXCEPT !.exportAltDisabled = (Len(slides) = 0)]
    /\ UNCHANGED <<storeVars, nzVars, bridgeVars, evVars, sessions, calls>>

\* exportStoryboard rejects
StoryboardFails ==
    /\ tasks.drawing > 0
    /\ tasks' = [tasks EXCEPT !.drawing = tasks.drawing - 1]
    /\ ui' = [ui EXCEPT !.exportAltDisabled = (Len(slides) = 0)]
    /\ UNCHANGED <<storeVars, nzVars, bridgeVars, evVars, sessions, calls>>

\* the storyboard's saveBlob settles, either way
StoryboardSaveSettles ==
    /\ tasks.saving > 0
    /\ tasks' = [tasks EXCEPT !.saving = tasks.saving - 1]
    /\ ui' = [ui EXCEPT !.exportAltDisabled = (Len(slides) = 0)]
    /\ UNCHANGED <<storeVars, nzVars, bridgeVars, evVars, sessions, calls>>

\* click on the new-session trigger
NewSessionClick ==
    /\ ~newSessionTriggerDisabled(ui)
    /\ Commit(resetSessionState(World))
    /\ UNCHANGED <<activeSlideIndex, nzVars, bridgeVars, evVars, calls, tasks>>

\* handlePdfFile up to `await extractPdfText(...)`
HandlePdfFile ==
    /\ tasks.pdfLoads < MaxPdfLoads
    /\ ui' = [ui EXCEPT !.renderStartDisabled = TRUE]
    /\ tasks' = [tasks EXCEPT !.pdfLoads = tasks.pdfLoads + 1]
    /\ UNCHANGED <<storeVars, nzVars, bridgeVars, evVars, sessions, calls>>

\* extractPdfText resolves
PdfLoaded ==
    /\ tasks.pdfLoads > 0
    /\ LET a == StoreSetPdf(World, TRUE)
           b == StoreSetSlides(a, <<>>)
           c == setStage(b, "file-ready")
       IN  Commit([c EXCEPT !.ui.renderStartDisabled = ~hasPdfPayload(c)])
    /\ tasks' = [tasks EXCEPT !.pdfLoads = tasks.pdfLoads - 1]
    /\ UNCHANGED <<activeSlideIndex, nzVars, bridgeVars, evVars, calls>>

\* extractPdfText rejects
PdfFails ==
    /\ tasks.pdfLoads > 0
    /\ LET a == setStage(World, IF hasPdfPayload(World) THEN "file-ready" ELSE "idle")
       IN  Commit([a EXCEPT !.ui.renderStartDisabled = ~hasPdfPayload(a)])
    /\ tasks' = [tasks EXCEPT !.pdfLoads = tasks.pdfLoads - 1]
    /\ UNCHANGED <<activeSlideIndex, nzVars, bridgeVars, evVars, calls>>

\* click on render start, up to `await synthesizeSlides(...)`
RenderStartClick ==
    /\ ~ui.renderStartDisabled
    /\ hasPdfPayload(World)
    /\ tasks.synthesis < MaxSynthesis
    /\ LET a == setStage(World, "rendering")
       IN  Commit([a EXCEPT !.ui.renderStartDisabled = TRUE, !.ui.renderBusy = TRUE])
    /\ tasks' = [tasks EXCEPT !.synthesis = tasks.synthesis + 1]
    /\ UNCHANGED <<activeSlideIndex, nzVars, bridgeVars, evVars, calls>>

\* synthesizeSlides resolves and the handler commits the deck
RenderStartResolved ==
    /\ tasks.synthesis > 0
    /\ LET a == StoreSetSlides(World, SynthesizedDeck)
       IN  Commit([a EXCEPT !.ui.renderBusy = FALSE,
                            !.ui.renderStartDisabled = ~hasPdfPayload(a)])
    /\ tasks' = [tasks EXCEPT !.synthesis = tasks.synthesis - 1]
    /\ UNCHANGED <<activeSlideIndex, nzVars, bridgeVars, evVars, calls>>

\* synthesizeSlides rejects
RenderStartRejected ==
    /\ tasks.synthesis > 0
    /\ LET a == setStage(World, IF hasPdfPayload(World) THEN "file-ready" ELSE "idle")
       IN  Commit([a EXCEPT !.ui.renderBusy = FALSE,
                            !.ui.renderStartDisabled = ~hasPdfPayload(a)])
    /\ tasks' = [tasks EXCEPT !.synthesis = tasks.synthesis - 1]
    /\ UNCHANGED <<activeSlideIndex, nzVars, bridgeVars, evVars, calls>>

\* an edit in the slide editor: updateSlide and the store's notification
SlideEdited ==
    /\ Len(slides) > 0
    /\ Commit(SlidesSubscriber(World))
    /\ UNCHANGED <<activeSlideIndex, nzVars, bridgeVars, evVars, calls, tasks>>

DownloadNext ==
    \/ ExportVideoClick
    \/ PreviewSaveClick
    \/ ExportVideoProgress
    \/ ExportVideoResolves
    \/ ExportVideoAborts
    \/ ExportVideoFails
    \/ SaveBlobProgress
    \/ SaveBlobResolves
    \/ SaveBlobCancelled
    \/ SaveBlobFails
    \/ ExportAltClick
    \/ StoryboardDrawn
    \/ StoryboardFails
    \/ StoryboardSaveSettles
    \/ NewSessionClick
    \/ HandlePdfFile
    \/ PdfLoaded
    \/ PdfFails
    \/ RenderStartClick
    \/ RenderStartResolved
    \/ RenderStartRejected
    \/ SlideEdited

DownloadSpec == DownloadInit /\ [][DownloadNext]_vars

-----------------------------------------------------------------------------
(* Claims about the export session *)

\* C6: when the user cancelled while the session was in the rendering phase,
\* the step in which exportVideo settles ends the attempt in the abort
\* outcome: cancellation is what is reported, the session is disposed, its
\* blob is null and the button is idle; and every session a later export
\* creates starts with a signal that is not aborted and a null blob.
C6_CancelEndsInAbortOutcome ==
    [][ /\ \A i \in 1..Len(calls) :
              (/\ calls[i].pc = "exportVideo"
               /\ sessions[i].aborted
               /\ calls'[i].pc # "exportVideo")
                  => /\ calls'[i].reported = "cancelled"
                     /\ ui'.button = "idle"
                     /\ ui'.session = 0
                     /\ ~sessions'[i].blob
        /\ \A j \in (Len(sessions) + 1)..Len(sessions') :
              ~sessions'[j].aborted /\ ~sessions'[j].blob ]_vars

\* C7 as stated: the phase of a session never moves backwards, it passes
\* rendering only in the step in which exportVideo resolves while the signal
\* is not aborted, and every session whose phase is rendered, saving or
\* complete holds its blob.
C7_PhaseImpliesBlob ==
    /\ [][ \A i \in 1..Len(sessions) :
              LET Rank(p) == CASE p = "idle" -> 1 [] p = "rendering" -> 2
                               [] p = "rendered" -> 3 [] p = "saving" -> 4
                               [] p = "complete" -> 5
                  before == Rank(sessions[i].phase)
                  after == Rank(sessions'[i].phase)
              IN  /\ after >= before
                  /\ (before < 3 /\ after >= 3)
                        => /\ calls[i].pc = "exportVideo"
                           /\ calls'[i].video = "resolved"
                           /\ ~sessions[i].aborted ]_vars
    /\ [](\A i \in 1..Len(sessions) :
              sessions[i].phase \in {"rendered", "saving", "complete"}
                  => sessions[i].blob)

\* C7 amended: the phase of a session never moves backwards, it passes
\* rendering only in the step in which exportVideo resolves while the signal
\* is not aborted, and the session downloadUi.session refers to holds its
\* blob whenever its phase is rendered, saving or complete; a session that
\* disposeDownloadSession let go keeps its phase while its blob is null.
C7_PhaseForwardCurrentBlobSet ==
    /\ [][ \A i \in 1..Len(sessions) :
              LET Rank(p) == CASE p = "idle" -> 1 [] p = "rendering" -> 2
                               [] p = "rendered" -> 3 [] p = "saving" -> 4
                               [] p = "complete" -> 5
                  before == Rank(sessions[i].phase)
                  after == Rank(sessions'[i].phase)
              IN  /\ after >= before
                  /\ (before < 3 /\ after >= 3)
                        => /\ calls[i].pc = "exportVideo"
                           /\ calls'[i].video = "resolved"
                           /\ ~sessions[i].aborted ]_vars
    /\ [](\A i \in 1..Len(sessions) :
              (ui.session = i /\ sessions[i].phase \in {"rendered", "saving", "complete"})
                  => sessions[i].blob)

\* C7 witness: the current session went through saveBlob to complete and
\* holds its blob, next to an earlier session that was disposed after it
\* had left the rendering phase.
C7_Witness ==
    /\ ui.bridge
    /\ \E i \in 1..Len(sessions) :
          /\ ui.session = i
          /\ sessions[i].phase = "complete"
          /\ sessions[i].blob
    /\ \E j \in 1..Len(sessions) :
          /\ ui.session # j
          /\ sessions[j].phase \in {"rendered", "saving", "complete"}

\* C8: while a call of exportVideo is in flight, no exportStoryboard call is
\* drawing and no other call of exportVideo is in flight on the export canvas.
C8_OneExportOnCanvas ==
    \A i \in 1..Len(calls) :
        calls[i].pc = "exportVideo"
            => /\ tasks.drawing = 0
               /\ \A j \in 1..Len(calls) : j # i => calls[j].pc # "exportVideo"

\* C9: a step that takes the current session away from downloadUi while its
\* exportVideo or saveBlob stays in flight aborts that session's controller.
C9_ResetSignalsCancellation ==
    [][ \A i \in 1..Len(calls) :
           (/\ InFlight(i)
            /\ calls'[i].pc = calls[i].pc
            /\ ui.session = i
            /\ ui'.session # i)
               => sessions'[i].aborted ]_vars

\* C10: once an attempt has reported a failure that is not a cancellation,
\* its session is no longer the current one and does not hold the blob.
C10_FailureReleasesSession ==
    \A i \in 1..Len(calls) :
        calls[i].reported = "failed"
            => ui.session # i /\ ~sessions[i].blob

-----------------------------------------------------------------------------
(* saveBlob of the Android download bridge: one call, the messages of the  *)
(* platform for its request and the calls it makes on window.Android.      *)
(* save.log is the sequence of those calls.                                *)

MinChunkBytes == 8192
MaxChunkBytes == 524288
FallbackChunkSize == 98304

BlobSizes == {0, 5000, 8192, 20000, 600000}
AnnouncedSizes == {0, 4096, 10000, 1000000}
Announcements ==
    {[given |-> FALSE, value |-> 0]}
        \cup {[given |-> TRUE, value |-> v] : v \in AnnouncedSizes}
DefaultChunkSizes == {FallbackChunkSize, 4096}

JsOr(a, b) == IF a = 0 THEN b ELSE a

\* session.maxChunkSize after handlers.ready
sessionMaxChunkSize(announced, default) ==
    IF announced.given THEN announced.value ELSE default

targetChunkSize(handshakeMax, sessionMax) ==
    Max(MinChunkBytes, Min(JsOr(handshakeMax, sessionMax), MaxChunkBytes))

LogCall(s, entry) == [s EXCEPT !.log = Append(s.log, entry)]

SaveAborted(s) == s.signalAborted \/ s.aborted

SaveCatchWithoutAbort(s, error) ==
    [s EXCEPT !.completion = IF s.completion = "pending" THEN "rejected"
                             ELSE s.completion,
              !.outcome = IF SaveAborted(s) THEN "AbortError" ELSE error,
              !.listener = FALSE, !.registered = FALSE, !.pc = "settled"]

\* catch and finally of the try block around the write loop
SaveCatch(s, error) ==
    LET a == LogCall(s, [call |-> "abortDownload"])
    IN  [a EXCEPT !.completion = IF a.completion = "pending" THEN "rejected"
                                 ELSE a.completion,
                  !.outcome = IF SaveAborted(a) THEN "AbortError" ELSE error,
                  !.listener = FALSE, !.registered = FALSE, !.pc = "settled"]

\* `await session.completion.promise` and what follows its settlement
AwaitCompletion(s) ==
    IF s.completion = "resolved"
    THEN [s EXCEPT !.outcome = "resolved", !.listener = FALSE,
                   !.registered = FALSE, !.pc = "settled"]
    ELSE IF s.completion = "rejected"
    THEN SaveCatch(s, s.platformError)
    ELSE [s EXCEPT !.pc = "completion"]

CompleteDownloadUnchecked(s) ==
    AwaitCompletion(LogCall(s, [call |-> "completeDownload"]))

\* the last abort check, completeDownload and the await of the completion
CompleteDownload(s) ==
    IF SaveAborted(s)
    THEN SaveCatch(s, "AbortError")
    ELSE AwaitCompletion(LogCall(s, [call |-> "completeDownload"]))

WriteLoopSingleChunk(s) ==
    IF s.offset = 0 /\ s.totalBytes > 0
    THEN [s EXCEPT !.pc = "slice"]
    ELSE CompleteDownload(s)

\* the head of the write loop, and what follows the loop when it is left
WriteLoop(s) ==
    IF s.offset < s.totalBytes
    THEN IF SaveAborted(s) THEN SaveCatch(s, "AbortError")
         ELSE [s EXCEPT !.pc = "slice"]
    ELSE IF s.totalBytes = 0
    THEN IF SaveAborted(s) THEN SaveCatch(s, "AbortError")
         ELSE [s EXCEPT !.pc = "emptyBuffer"]
    ELSE CompleteDownload(s)

\* saveBlob from the resolution of the handshake up to its next await
AfterHandshake(s) ==
    IF ~s.token
    THEN [s EXCEPT !.registered = FALSE, !.outcome = "Error", !.pc = "settled"]
    ELSE LET t == [s EXCEPT !.tokenSet = TRUE,
                            !.targetChunkSize =
                                targetChunkSize(s.maxChunkSize, s.maxChunkSize)]
         IN  IF SaveAborted(t) THEN SaveCatch(t, "AbortError") ELSE WriteLoop(t)

\* the catch around `await session.handshake.promise`
HandshakeCatch(s) ==
    [s EXCEPT !.listener = FALSE, !.registered = FALSE, !.pc = "settled",
              !.outcome = IF SaveAborted(s) THEN "AbortError" ELSE s.platformError]

SaveBlobInit ==
    /\ slides = <<>>
    /\ activeSlideIndex = 0
    /\ nz = NzIdle
    /\ ev = EvIdle
    /\ ui = UiUnused
    /\ sessions = <<>>
    /\ calls = <<>>
    /\ tasks = TasksIdle
    /\ \E size \in BlobSizes, default \in DefaultChunkSizes :
          save = [pc |-> "start", totalBytes |-> size,
                  defaultChunkSize |-> default, maxChunkSize |-> default,
                  announced |-> [given |-> FALSE, value |-> 0],
                  registered |-> FALSE, token |-> FALSE, tokenSet |-> FALSE,
                  handshake |-> "pending", completion |-> "pending",
                  platformError |-> "none",
                  signalAborted |-> FALSE, aborted |-> FALSE, listener |-> FALSE,
                  targetChunkSize |-> 0, offset |-> 0, bytesWritten |-> 0,
                  log |-> <<>>, outcome |-> "pending"]

saveUnchanged == UNCHANGED <<storeVars, nzVars, evVars, sessionVars>>

\* saveBlob is called: everything up to `await session.handshake.promise`
SbCall ==
    /\ save.pc = "start"
    /\ \E requestThrows \in BOOLEAN :
          LET r == LogCall(save, [call |-> "requestDownloadDestination"])
          IN  save' = IF requestThrows
                      THEN [r EXCEPT !.outcome = "Error", !.pc = "settled"]
                      ELSE IF r.signalAborted
                      THEN [r EXCEPT !.outcome = "AbortError", !.pc = "settled"]
                      ELSE [r EXCEPT !.registered = TRUE, !.listener = TRUE,
                                     !.pc = "handshake"]
    /\ saveUnchanged

\* the caller's controller aborts the signal
SbAbort ==
    /\ save.pc # "settled"
    /\ ~save.signalAborted
    /\ LET a == [save EXCEPT !.signalAborted = TRUE]
       IN  save' = IF ~a.listener THEN a
                   ELSE LET h == [a EXCEPT !.aborted = TRUE, !.listener = FALSE]
                        IN  IF h.tokenSet
                            THEN LogCall(h, [call |-> "abortDownload"])
                            ELSE h
    /\ saveUnchanged

\* the platform's ready message for the request
PlatformReady ==
    /\ save.registered
    /\ \E withToken \in BOOLEAN, announced \in Announcements :
          LET r == [save EXCEPT
                       !.token = withToken,
                       !.announced = announced,
                       !.maxChunkSize = sessionMaxChunkSize(announced, save.maxChunkSize),
                       !.handshake = "resolved"]
          IN  /\ save.handshake = "pending"
              /\ save' = IF save.pc = "handshake" THEN AfterHandshake(r) ELSE r
    /\ saveUnchanged

\* the platform's cancelled or error message for the request
PlatformRejects ==
    /\ save.registered
    /\ \E error \in {"Cancelled", "Error"} :
          LET first == save.handshake = "pending" \/ save.completion = "pending"
              r == [save EXCEPT
                       !.platformError = IF first THEN error ELSE save.platformError,
                       !.handshake = IF save.handshake = "pending"
                                     THEN "rejected" ELSE save.handshake,
                       !.completion = IF save.completion = "pending"
                                      THEN "rejected" ELSE save.completion,
                       !.registered = FALSE]
          IN  save' = IF save.pc = "handshake" /\ save.handshake = "pending"
                      THEN HandshakeCatch(r)
                      ELSE IF save.pc = "completion" /\ save.completion = "pending"
                      THEN SaveCatch(r, error)
                      ELSE r
    /\ saveUnchanged

\* the platform's complete message, after completeDownload
PlatformComplete ==
    /\ save.registered
    /\ \E k \in 1..Len(save.log) : save.log[k].call = "completeDownload"
    /\ LET r == [save EXCEPT !.completion = IF save.completion = "pending"
                                            THEN "resolved" ELSE save.completion,
                             !.registered = FALSE]
       IN  save' = IF save.pc = "completion" /\ save.completion = "pending"
                   THEN AwaitCompletion(r)
                   ELSE r
    /\ saveUnchanged

\* slice.arrayBuffer() resolves: the chunk is written
SbSliceRead ==
    /\ save.pc = "slice"
    /\ \E accepted \in BOOLEAN :
          LET length == Min(save.targetChunkSize, save.totalBytes - save.offset)
              w == LogCall(save, [call |-> "writeDownloadChunk", offset |-> save.offset,
                                  length |-> length, accepted |-> accepted])
          IN  save' = IF ~accepted
                      THEN SaveCatch(w, "Error")
                      ELSE [w EXCEPT !.offset = w.offset + length,
                                     !.bytesWritten = w.bytesWritten + length,
                                     !.pc = "tick"]
    /\ saveUnchanged

\* the zero timeout after a chunk fires
SbTick ==
    /\ save.pc = "tick"
    /\ save' = WriteLoop(save)
    /\ saveUnchanged

\* blob.arrayBuffer() of an empty blob resolves
SbEmptyRead ==
    /\ save.pc = "emptyBuffer"
    /\ save' = CompleteDownload(save)
    /\ saveUnchanged

SaveBlobNext ==
    \/ SbCall
    \/ SbAbort
    \/ PlatformReady
    \/ PlatformRejects
    \/ PlatformComplete
    \/ SbSliceRead
    \/ SbTick
    \/ SbEmptyRead

SaveBlobSpec == SaveBlobInit /\ [][SaveBlobNext]_vars

-----------------------------------------------------------------------------
(* Claims about saveBlob *)

\* C11: once a writeDownloadChunk call returned not-accepted, saveBlob has
\* rejected with an error, abortDownload was called after that write, no
\* chunk was written after it, and completeDownload is not called at all.
C11_RejectedChunkAbortsDownload ==
    \A k \in 1..Len(save.log) :
        (save.log[k].call = "writeDownloadChunk" /\ ~save.log[k].accepted)
            => /\ save.pc = "settled"
               /\ save.outcome \in {"Error", "AbortError"}
               /\ \E m \in (k + 1)..Len(save.log) : save.log[m].call = "abortDownload"
               /\ \A m \in (k + 1)..Len(save.log) :
                     save.log[m].call # "writeDownloadChunk"
               /\ \A m \in 1..Len(save.log) : save.log[m].call # "completeDownload"

\* C11 witness: the second chunk of a blob was not accepted, after the
\* first one was.
C11_Witness ==
    \E k \in 2..Len(save.log) :
        /\ save.log[k].call = "writeDownloadChunk"
        /\ ~save.log[k].accepted
        /\ save.log[k - 1].call = "writeDownloadChunk"
        /\ save.outcome = "Error"

\* C12: the chunks in the log lie one after the other from offset 0: each
\* chunk but the last was accepted and the next one starts where it ended;
\* and when completeDownload is in the log, every chunk was accepted, the
\* chunks end at the blob's size and bytesWritten equals the blob's size.
C12_ChunksSequentialAndComplete ==
    LET writes == SelectSeq(save.log, LAMBDA e : e.call = "writeDownloadChunk")
        completes == SelectSeq(save.log, LAMBDA e : e.call = "completeDownload")
        last == writes[Len(writes)]
    IN  /\ Len(writes) > 0 => writes[1].offset = 0
        /\ \A k \in 1..(Len(writes) - 1) :
              /\ writes[k].accepted
              /\ writes[k].length > 0
              /\ writes[k + 1].offset = writes[k].offset + writes[k].length
        /\ Len(completes) > 0 =>
              /\ save.bytesWritten = save.totalBytes
              /\ IF Len(writes) = 0 THEN save.totalBytes = 0
                 ELSE last.accepted /\ last.offset + last.length = save.totalBytes

\* C12 witness: a blob went out in three chunks and completeDownload
\* followed.
C12_Witness ==
    /\ Len(SelectSeq(save.log, LAMBDA e : e.call = "writeDownloadChunk")) = 3
    /\ \E k \in 1..Len(save.log) : save.log[k].call = "completeDownload"
    /\ save.bytesWritten = save.totalBytes

\* C13: the log starts with the one requestDownloadDestination; a
\* writeDownloadChunk or completeDownload is in it only after the ready
\* message resolved the handshake with a token; completeDownload occurs at
\* most once, after every writeDownloadChunk and never after an
\* abortDownload.
C13_BridgeCallOrder ==
    /\ \A k \in 1..Len(save.log) :
          (save.log[k].call = "requestDownloadDestination") <=> (k = 1)
    /\ \A k \in 1..Len(save.log) :
          save.log[k].call \in {"writeDownloadChunk", "completeDownload"}
              => save.handshake = "resolved" /\ save.token
    /\ \A k \in 1..Len(save.log) : \A m \in (k + 1)..Len(save.log) :
          /\ save.log[k].call = "completeDownload"
                => save.log[m].call \notin {"writeDownloadChunk", "completeDownload"}
          /\ save.log[k].call = "abortDownload"
                => save.log[m].call # "completeDownload"

\* C13 witness: a call that requested, wrote and called completeDownload,
\* and that rejected with its AbortError after an abortDownload that follows
\* the completeDownload.
C13_Witness ==
    /\ save.outcome = "AbortError"
    /\ \E k \in 1..Len(save.log) :
          /\ save.log[k].call = "completeDownload"
          /\ save.log[k - 1].call = "writeDownloadChunk"
          /\ \E m \in (k + 1)..Len(save.log) : save.log[m].call = "abortDownload"

\* C14: no chunk handed to writeDownloadChunk is larger than the
\* maxChunkSize of the ready message, or than the default chunk size when
\* the message announced none, and none is larger than 524288 bytes.
C14_ChunkWithinAnnouncedMax ==
    \A k \in 1..Len(save.log) :
        save.log[k].call = "writeDownloadChunk"
            => /\ save.log[k].length <= MaxChunkBytes
               /\ save.log[k].length <=
                     (IF save.announced.given THEN save.announced.value
                      ELSE save.defaultChunkSize)

-----------------------------------------------------------------------------
(* Claims about the progress exportVideo reports *)

\* C15: the values one exportVideo call has passed to onProgress are
\* integers in 0..100, the first is 0, none is smaller than or equal to the
\* one reported before it, and when the call resolved the last one is 100.
C15_ProgressMonotoneNoRepeat ==
    /\ \A k \in 1..Len(ev.progress) : ev.progress[k] \in 0..100
    /\ Len(ev.progress) > 0 => ev.progress[1] = 0
    /\ \A k \in 1..(Len(ev.progress) - 1) : ev.progress[k] < ev.progress[k + 1]
    /\ ev.outcome = "resolved" => ev.progress[Len(ev.progress)] = 100

-----------------------------------------------------------------------------
(* The summarizer call and the render-start handler around it.  nz holds   *)
(* the handler's position and, once the call settled, the reply it got.    *)

NullCandidate == [isNull |-> TRUE]

IsNull(candidate) == "isNull" \in DOMAIN candidate

ReplyCandidateLists ==
    UNION {[1..n -> StoreCandidates \cup {NullCandidate}] : n \in DeckSizes}

\* what the summarizer call meets: a key or none, a reachable service or
\* none, an OK status or not, and the content of the first choice's message
SummarizerReplies ==
    {[apiKey |-> FALSE, reachable |-> TRUE, statusOk |-> TRUE,
      content |-> "slides", slides |-> <<>>],
     [apiKey |-> TRUE, reachable |-> FALSE, statusOk |-> TRUE,
      content |-> "slides", slides |-> <<>>],
     [apiKey |-> TRUE, reachable |-> TRUE, statusOk |-> FALSE,
      content |-> "slides", slides |-> <<>>]}
    \cup {[apiKey |-> TRUE, reachable |-> TRUE, statusOk |-> TRUE,
           content |-> c, slides |-> <<>>] : c \in {"missing", "text", "object"}}
    \cup {[apiKey |-> TRUE, reachable |-> TRUE, statusOk |-> TRUE,
           content |-> "slides", slides |-> l] : l \in ReplyCandidateLists}

Rejected == [ok |-> FALSE, slides |-> <<>>]

parseResponseLenient(reply) == [ok |-> TRUE, slides |-> reply.slides]

\* parseResponse: the slides array of the message content, or a throw
parseResponse(reply) ==
    IF reply.content = "slides"
    THEN [ok |-> TRUE, slides |-> reply.slides]
    ELSE Rejected

\* generateSlidesWithLongcat up to the map over the parsed candidates, which
\* throws on a candidate that is null
generateSlidesWithLongcat(reply) ==
    IF ~reply.apiKey \/ ~reply.reachable \/ ~reply.statusOk
    THEN Rejected
    ELSE LET parsed == parseResponse(reply)
         IN  IF ~parsed.ok THEN Rejected
             ELSE IF \E i \in 1..Len(parsed.slides) : IsNull(parsed.slides[i])
             THEN Rejected
             ELSE parsed

\* the promise of synthesizeSlides: the enriched deck, or the rejection
synthesizeSlidesCall(reply) ==
    LET generated == generateSlidesWithLongcat(reply)
    IN  IF generated.ok
        THEN [ok |-> TRUE, slides |-> synthesizeSlides(generated.slides)]
        ELSE Rejected

PriorDecks == {setSlides(deck) : deck \in StoreRawDecks}

SynthesisInit ==
    /\ slides \in PriorDecks
    /\ activeSlideIndex = 0
    /\ nz = [stage |-> "idle"]
    /\ ev = EvIdle
    /\ ui = UiUnused
    /\ sessions = <<>>
    /\ calls = <<>>
    /\ tasks = TasksIdle
    /\ save = SaveIdle

\* click on render start, up to `await synthesizeSlides(...)`
SynthesisStart ==
    /\ nz.stage = "idle"
    /\ nz' = [stage |-> "pending"]
    /\ UNCHANGED <<storeVars, bridgeVars, evVars, sessionVars>>

\* synthesizeSlides settles and the handler runs to its end
SynthesisSettles ==
    /\ nz.stage = "pending"
    /\ \E reply \in SummarizerReplies :
          LET result == synthesizeSlidesCall(reply)
          IN  /\ nz' = [stage |-> "settled", reply |-> reply, ok |-> result.ok]
              /\ IF result.ok
                 THEN /\ slides' = setSlides(result.slides)
                      /\ activeSlideIndex' = 0
                 ELSE UNCHANGED storeVars
    /\ UNCHANGED <<bridgeVars, evVars, sessionVars>>

SynthesisNext ==
    \/ SynthesisStart
    \/ SynthesisSettles
    \/ ToggleSlideChart
    \/ SetActiveSlide

SynthesisSpec == SynthesisInit /\ [][SynthesisNext]_vars

\* C16: in the step in which synthesizeSlides settles, a missing key, an
\* unreachable service, a non-OK status, a reply without message content or
\* without a slides array make the handler fail; a failing handler leaves
\* state.slides as it was; a succeeding handler leaves one normalized slide
\* per candidate of the reply, in the candidates' order.
C16_SynthesisAllOrNothing ==
    [][ (nz.stage = "pending" /\ nz'.stage = "settled") =>
          LET reply == nz'.reply
          IN  /\ (\/ ~reply.apiKey \/ ~reply.reachable \/ ~reply.statusOk
                  \/ reply.content # "slides") => ~nz'.ok
              /\ ~nz'.ok => slides' = slides
              /\ nz'.ok =>
                    /\ Len(slides') = Len(reply.slides)
                    /\ \A i \in 1..Len(slides') :
                          /\ slides'[i] = normalizeSlide(slides'[i])
                          /\ Len(slides'[i].bullets) = Capacity(slides'[i].template)
                          /\ reply.slides[i].id # Undefined
                                => slides'[i].id = reply.slides[i].id ]_vars

\* C16 witness: a reply whose second candidate is null was rejected as a
\* whole, and the deck of two slides that was there before is still there.
C16_Witness ==
    /\ nz.stage = "settled"
    /\ ~nz.ok
    /\ Len(nz.reply.slides) = 2
    /\ ~IsNull(nz.reply.slides[1])
    /\ Len(slides) = 2

-----------------------------------------------------------------------------
(* The slides an export works on.  nz holds one export in flight: the deck *)
(* as it was when the export was called (given), the clones it was handed  *)
(* (handed) or the fact that it was handed state.slides itself (live),     *)
(* and what it has rendered and emitted so far.                            *)

\* Edits made while one export is in flight.
MaxEdits == 2

\* sanitizeCopy on the bullet texts of the model, which carry no link and
\* no image label
sanitizeCopy(value) == IF value = Undefined THEN "" ELSE value

ensureBulletCapacity(bullets, template) ==
    LET capacity == IF template = "quad-grid" THEN 4 ELSE 3
    IN  PadBullets(SubSeq(bullets, 1, Min(Len(bullets), capacity)), capacity)

\* a sanitizer that returns the sanitized bullets as many as they are
sanitizeSlideKeepLength(slide) ==
    [slide EXCEPT !.bullets =
        [i \in 1..Len(slide.bullets) |-> sanitizeCopy(slide.bullets[i])]]

sanitizeSlideForExport(slide) ==
    [slide EXCEPT !.bullets =
        ensureBulletCapacity([i \in 1..Len(slide.bullets) |->
                                  sanitizeCopy(slide.bullets[i])],
                             slide.template)]

\* buildSlidesForExport: a clone of the sanitized copy of every slide
buildSlidesForExport(deck) ==
    [i \in 1..Len(deck) |-> sanitizeSlideForExport(deck[i])]

\* the slide object the export reads at a position: its own clone, or the
\* object of state.slides that updateSlide and toggleSlideChart write to
ExportSlideAt(index) ==
    IF nz.live THEN slides[index] ELSE nz.handed[index]

\* the entry exportStoryboard pushes for a slide
StoryboardAsset(slide) == [id |-> slide.id, bullets |-> slide.bullets]

SnapshotInit ==
    /\ slides \in PriorDecks
    /\ activeSlideIndex = 0
    /\ nz = [stage |-> "idle"]
    /\ ev = EvIdle
    /\ ui = UiUnused
    /\ sessions = <<>>
    /\ calls = <<>>
    /\ tasks = TasksIdle
    /\ save = SaveIdle

\* startVideoExport up to the call of exportVideo with the clones
VideoExportStarts ==
    /\ nz.stage = "idle"
    /\ Len(slides) > 0
    /\ nz' = [stage |-> "exporting", kind |-> "video", live |-> FALSE,
              given |-> slides, handed |-> buildSlidesForExport(slides),
              index |-> 1, drawing |-> FALSE, rendered |-> <<>>, assets |-> <<>>,
              edits |-> 0]
    /\ UNCHANGED <<storeVars, bridgeVars, evVars, sessionVars>>

\* exportVideo has drawn the frames of one slide
VideoSlideRendered ==
    /\ nz.stage = "exporting"
    /\ nz.kind = "video"
    /\ nz' = [nz EXCEPT
                !.rendered = Append(@, sanitizeSlideForExport(ExportSlideAt(nz.index))),
                !.index = @ + 1,
                !.stage = IF nz.index = Len(nz.handed) THEN "done" ELSE @]
    /\ UNCHANGED <<storeVars, bridgeVars, evVars, sessionVars>>

\* click on the storyboard button: exportStoryboard(state.slides, ...) runs
\* up to the await of the first drawSlideToCanvas, which has taken its
\* working copy of the slide
StoryboardExportStarts ==
    /\ nz.stage = "idle"
    /\ Len(slides) > 0
    /\ nz' = [stage |-> "exporting", kind |-> "storyboard", live |-> TRUE,
              given |-> slides, handed |-> slides,
              index |-> 1, drawing |-> TRUE,
              rendered |-> <<sanitizeSlideForExport(slides[1])>>,
              assets |-> <<>>, edits |-> 0]
    /\ UNCHANGED <<storeVars, bridgeVars, evVars, sessionVars>>

\* the draw resolved: the asset of the slide is pushed, and the loop goes on
\* to the next draw or the function returns
StoryboardAssetPushed ==
    /\ nz.stage = "exporting"
    /\ nz.kind = "storyboard"
    /\ LET pushed == Append(nz.assets, StoryboardAsset(ExportSlideAt(nz.index)))
       IN  IF nz.index = Len(nz.handed)
           THEN nz' = [nz EXCEPT !.assets = pushed, !.stage = "done",
                                 !.drawing = FALSE]
           ELSE nz' = [nz EXCEPT
                         !.assets = pushed,
                         !.index = @ + 1,
                         !.rendered = Append(@,
                             sanitizeSlideForExport(ExportSlideAt(nz.index + 1)))]
    /\ UNCHANGED <<storeVars, bridgeVars, evVars, sessionVars>>

\* an edit field changes while the export is in flight: updateSlide
EditedDuringExport ==
    /\ nz.stage = "exporting"
    /\ nz.edits < MaxEdits
    /\ \E id \in DeckIds(slides), updates \in Updates :
          slides' = updateSlide(slides, id, updates)
    /\ nz' = [nz EXCEPT !.edits = @ + 1]
    /\ UNCHANGED <<activeSlideIndex, bridgeVars, evVars, sessionVars>>

\* the chart switch of a card changes while the export is in flight
ToggledDuringExport ==
    /\ nz.stage = "exporting"
    /\ nz.edits < MaxEdits
    /\ \E id \in DeckIds(slides), enabled \in {"true", "false"} :
          slides' = toggleSlideChart(slides, id, enabled)
    /\ nz' = [nz EXCEPT !.edits = @ + 1]
    /\ UNCHANGED <<activeSlideIndex, bridgeVars, evVars, sessionVars>>

SnapshotNext ==
    \/ VideoExportStarts
    \/ VideoSlideRendered
    \/ StoryboardExportStarts
    \/ StoryboardAssetPushed
    \/ EditedDuringExport
    \/ ToggledDuringExport

SnapshotSpec == SnapshotInit /\ [][SnapshotNext]_vars

\* C17: whatever an export in flight has rendered or emitted for a slide is
\* the content that slide had when the export was called, whichever edits
\* updateSlide and toggleSlideChart made to the state since.
C17_ExportWorksOnSnapshot ==
    nz.stage \in {"exporting", "done"} =>
        /\ \A i \in 1..Len(nz.rendered) :
              nz.rendered[i] = sanitizeSlideForExport(nz.given[i])
        /\ \A i \in 1..Len(nz.assets) :
              nz.assets[i] = StoryboardAsset(nz.given[i])

-----------------------------------------------------------------------------
(* The page side of synthesizeSlides, src/js/analyzer.js:16-17, 28-30, 54  *)
(* and 65-151: the section count asked of the summarizer, the prompt and   *)
(* the pages each slide is attributed to.  nz holds one call: its pages,   *)
(* the number of candidates the summarizer returned, and the results.      *)

\* Most pages of a document.
MaxPages == 31

\* Most candidates the summarizer returns.
MaxCandidates == 4

PlaceholderPrompt == <<"Document contained no readable text.">>

\* which pages of a document carry text
TextPatterns == {"none", "all", "odd"}

\* the pages extractPdfText returns: 0-based index, text short enough to fit
\* the prompt untruncated, or empty
DocumentPages(count, pattern) ==
    [i \in 1..count |->
        [index |-> i - 1,
         text |-> IF pattern = "all" \/ (pattern = "odd" /\ i % 2 = 1)
                  THEN "text" ELSE ""]]

\* an inferSectionCount whose second step starts one page early
inferSectionCountEarly(totalPages) ==
    IF totalPages <= 2 THEN 2
    ELSE IF totalPages < 5 THEN 3
    ELSE IF totalPages <= 10 THEN 4
    ELSE IF totalPages <= 18 THEN 5
    ELSE 6

inferSectionCount(totalPages) ==
    IF totalPages <= 2 THEN 2
    ELSE IF totalPages <= 5 THEN 3
    ELSE IF totalPages <= 10 THEN 4
    ELSE IF totalPages <= 18 THEN 5
    ELSE 6

clampSections(value) == Min(Max(value, 2), 6)

\* Array.prototype.slice(from, to) on a sequence, 0-based bounds
Slice(seq, from, to) ==
    SubSeq(seq, Min(from, Len(seq)) + 1, Min(to, Len(seq)))

\* a chunkPages whose chunk size is rounded down
chunkPagesRoundedDown(pages, chunkCount) ==
    IF Len(pages) = 0 \/ chunkCount = 0 THEN <<>>
    ELSE LET chunkSize == Len(pages) \div chunkCount
         IN  [k \in 1..chunkCount |->
                LET slice == Slice(pages, (k - 1) * chunkSize, k * chunkSize)
                IN  [text |-> [i \in 1..Len(slice) |-> slice[i].text],
                     pages |-> [i \in 1..Len(slice) |-> slice[i].index]]]

\* chunkPages: with no candidate the chunk size is Infinity and the loop
\* does not run
chunkPages(pages, chunkCount) ==
    IF Len(pages) = 0 \/ chunkCount = 0 THEN <<>>
    ELSE LET totals == Len(pages)
             chunkSize == Ceil(totals, chunkCount)
         IN  [k \in 1..chunkCount |->
                LET slice == Slice(pages, (k - 1) * chunkSize, k * chunkSize)
                IN  [text |-> [i \in 1..Len(slice) |-> slice[i].text],
                     pages |-> [i \in 1..Len(slice) |-> slice[i].index]]]

\* buildDocumentPrompt: the segments of the pages with text, or the
\* placeholder
buildDocumentPrompt(pages) ==
    LET withText == SelectSeq(pages, LAMBDA page : page.text # "")
    IN  IF Len(pages) = 0 \/ Len(withText) = 0 THEN PlaceholderPrompt
        ELSE [i \in 1..Len(withText) |-> "Page " \o ToString(withText[i].index + 1)]

\* sourcePages of the slide built for candidate number index (1-based)
sourcePages(paragraphChunks, index) ==
    IF index <= Len(paragraphChunks) THEN paragraphChunks[index].pages ELSE <<>>

AnalyzerInit ==
    /\ slides = <<>>
    /\ activeSlideIndex = 0
    /\ nz = [stage |-> "idle"]
    /\ ev = EvIdle
    /\ ui = UiUnused
    /\ sessions = <<>>
    /\ calls = <<>>
    /\ tasks = TasksIdle
    /\ save = SaveIdle

\* one call of synthesizeSlides whose summarizer call returns candidates
AnalyzerCall ==
    /\ nz.stage = "idle"
    /\ \E count \in 0..MaxPages, pattern \in TextPatterns,
          candidates \in 0..MaxCandidates :
          LET pages == DocumentPages(count, pattern)
              paragraphChunks == chunkPages(pages, candidates)
          IN  nz' = [stage |-> "synthesized",
                     pages |-> pages,
                     sections |-> clampSections(inferSectionCount(Len(pages))),
                     prompt |-> buildDocumentPrompt(pages),
                     candidates |-> candidates,
                     chunks |-> [i \in 1..Len(paragraphChunks) |->
                                    paragraphChunks[i].pages],
                     sourcePages |-> [i \in 1..candidates |->
                                         sourcePages(paragraphChunks, i)]]
    /\ UNCHANGED <<storeVars, bridgeVars, evVars, sessionVars>>

AnalyzerNext == AnalyzerCall

AnalyzerSpec == AnalyzerInit /\ [][AnalyzerNext]_vars

\* C18: a call on a document of one page without text sends the placeholder
\* prompt and builds one slide per candidate, each with sourcePages [0].
C18_TextlessPageDeckCitesPageZero ==
    (/\ nz.stage = "synthesized"
     /\ Len(nz.pages) = 1
     /\ nz.pages[1].text = "") =>
        /\ nz.prompt = PlaceholderPrompt
        /\ Len(nz.sourcePages) = nz.candidates
        /\ \A i \in 1..nz.candidates : nz.sourcePages[i] = <<0>>

\* C19: the section count of a call is 2 up to 2 pages, 3 up to 5, 4 up to
\* 10, 5 up to 18 and 6 beyond; it lies in 2..6 and no document with fewer
\* pages gets a larger one.
C19_SectionCountStepFunction ==
    nz.stage = "synthesized" =>
        LET n == Len(nz.pages)
        IN  /\ nz.sections = (IF n <= 2 THEN 2 ELSE IF n <= 5 THEN 3
                              ELSE IF n <= 10 THEN 4 ELSE IF n <= 18 THEN 5 ELSE 6)
            /\ nz.sections \in 2..6
            /\ \A m \in 0..n : clampSections(inferSectionCount(m)) <= nz.sections
            /\ (n = 1 => nz.sections = 2) /\ (n = 2 => nz.sections = 2)
            /\ (n = 5 => nz.sections = 3) /\ (n = 10 => nz.sections = 4)
            /\ (n = 18 => nz.sections = 5) /\ (n = 30 => nz.sections = 6)

\* C19 witness: a call on 30 pages asked for 6 sections.
C19_Witness ==
    /\ nz.stage = "synthesized"
    /\ Len(nz.pages) = 30
    /\ nz.sections = 6

-----------------------------------------------------------------------------
(* Chart detection, src/js/charting.js:4-57.  A text is a sequence of      *)
(* one-character strings; nz holds one call of detectChartSpec: the        *)
(* statements the text was written from, the text, and the result.         *)

\* Most statements in a text.
MaxStatements == 4

ChartLabels == <<"A", "B", "C", "D">>

\* the numbers of the statements
ChartValues == {-2, 1, 2, 3, 4, 6, 10}

StatementLists ==
    UNION {[1..n -> ChartValues] : n \in 2..MaxStatements}

IsSpace(c) == c \in {" ", "\n"}

IsDigit(c) == \E d \in 0..9 : ToString(d) = c

DigitValue(c) == CHOOSE d \in 0..9 : ToString(d) = c

Digits(n) ==
    IF n < 10 THEN <<ToString(n)>>
    ELSE <<ToString(n \div 10), ToString(n % 10)>>

\* the statement "<label>: <value>"
StatementText(label, value) ==
    <<label, ":", " ">> \o (IF value < 0 THEN <<"-">> ELSE <<>>)
        \o Digits(IF value < 0 THEN -value ELSE value)

\* the statements as sentences, each closed by a full stop, after an
\* introductory sentence without a number when there is one
RECURSIVE Sentences(_, _)
Sentences(values, k) ==
    IF k > Len(values) THEN <<>>
    ELSE StatementText(ChartLabels[k], values[k]) \o <<".">>
            \o (IF k < Len(values) THEN <<" ">> ELSE <<>>)
            \o Sentences(values, k + 1)

SectionText(values, intro) ==
    (IF intro THEN <<"S", ".", " ">> ELSE <<>>) \o Sentences(values, 1)

RECURSIVE SkipSpaces(_, _)
SkipSpaces(text, i) ==
    IF i <= Len(text) /\ IsSpace(text[i]) THEN SkipSpaces(text, i + 1) ELSE i

\* sectionText.split(/\n|\.\s+/)
RECURSIVE SplitFrom(_, _, _)
SplitFrom(text, i, current) ==
    IF i > Len(text) THEN <<current>>
    ELSE IF text[i] = "\n"
    THEN <<current>> \o SplitFrom(text, i + 1, <<>>)
    ELSE IF text[i] = "." /\ i < Len(text) /\ IsSpace(text[i + 1])
    THEN <<current>> \o SplitFrom(text, SkipSpaces(text, i + 1), <<>>)
    ELSE SplitFrom(text, i + 1, Append(current, text[i]))

RECURSIVE Trim(_)
Trim(line) ==
    IF line = <<>> THEN line
    ELSE IF IsSpace(Head(line)) THEN Trim(Tail(line))
    ELSE IF IsSpace(line[Len(line)]) THEN Trim(SubSeq(line, 1, Len(line) - 1))
    ELSE line

\* the lines of the text: split, trimmed, the empty ones dropped
TextLines(text) ==
    LET parts == SplitFrom(text, 1, <<>>)
        trimmed == [k \in 1..Len(parts) |-> Trim(parts[k])]
    IN  SelectSeq(trimmed, LAMBDA line : line # <<>>)

\* -?\d+ can start at position p of the line
NumberStartsAt(line, p) ==
    \/ p <= Len(line) /\ IsDigit(line[p])
    \/ p < Len(line) /\ line[p] = "-" /\ IsDigit(line[p + 1])

\* ^([^:;\-]+)[\s:;\-]+ matches with a group of labelLength characters and
\* sepLength separators, and the number follows
MatchesWith(line, labelLength, sepLength) ==
    /\ labelLength >= 1
    /\ sepLength >= 1
    /\ labelLength + sepLength < Len(line)
    /\ \A i \in 1..labelLength : line[i] \notin {":", ";", "-"}
    /\ \A i \in (labelLength + 1)..(labelLength + sepLength) :
          IsSpace(line[i]) \/ line[i] \in {":", ";", "-"}
    /\ NumberStartsAt(line, labelLength + sepLength + 1)

LineMatches(line) ==
    \E l \in 1..Len(line), q \in 1..Len(line) : MatchesWith(line, l, q)

\* the end of the run of digits that starts at p
RECURSIVE DigitsEnd(_, _)
DigitsEnd(line, p) ==
    IF p <= Len(line) /\ IsDigit(line[p]) THEN DigitsEnd(line, p + 1) ELSE p - 1

RECURSIVE DigitsNumber(_, _, _)
DigitsNumber(line, from, to) ==
    IF from > to THEN 0
    ELSE DigitsNumber(line, from, to - 1) * 10 + DigitValue(line[to])

\* line.match(...) of a matching line: both quantified groups are greedy,
\* the label first; the modelled texts hold no decimal fraction
MatchPair(line) ==
    LET labelLength == CHOOSE l \in 1..Len(line) :
            /\ \E q \in 1..Len(line) : MatchesWith(line, l, q)
            /\ \A m \in (l + 1)..Len(line) :
                  ~\E q \in 1..Len(line) : MatchesWith(line, m, q)
        sepLength == CHOOSE q \in 1..Len(line) :
            /\ MatchesWith(line, labelLength, q)
            /\ \A r \in (q + 1)..Len(line) : ~MatchesWith(line, labelLength, r)
        p == labelLength + sepLength + 1
        negative == line[p] = "-"
        first == IF negative THEN p + 1 ELSE p
        magnitude == DigitsNumber(line, first, DigitsEnd(line, first))
    IN  [label |-> Trim(SubSeq(line, 1, labelLength)),
         value |-> IF negative THEN -magnitude ELSE magnitude]

inferChartType(values) ==
    LET monotonic == \A idx \in 2..Len(values) : values[idx] >= values[idx - 1]
        monotonicDescending == \A idx \in 2..Len(values) : values[idx] <= values[idx - 1]
    IN  IF monotonic \/ monotonicDescending THEN "line" ELSE "bar"

NoChartSpec ==
    [found |-> FALSE, type |-> "none", labels |-> <<>>, data |-> <<>>,
     rationale |-> "none"]

\* detectChartSpec without imported data
detectChartSpec(sectionText) ==
    IF sectionText = <<>> THEN NoChartSpec
    ELSE LET lines == TextLines(sectionText)
             matching == SelectSeq(lines, LineMatches)
             numericPairs == [k \in 1..Len(matching) |-> MatchPair(matching[k])]
         IN  IF Len(numericPairs) >= 3
             THEN LET data == [k \in 1..Len(numericPairs) |-> numericPairs[k].value]
                  IN  [found |-> TRUE,
                       type |-> inferChartType(data),
                       labels |-> [k \in 1..Len(numericPairs) |-> numericPairs[k].label],
                       data |-> data,
                       rationale |-> "statements"]
             ELSE NoChartSpec

ChartInit ==
    /\ slides = <<>>
    /\ activeSlideIndex = 0
    /\ nz = [stage |-> "idle"]
    /\ ev = EvIdle
    /\ ui = UiUnused
    /\ sessions = <<>>
    /\ calls = <<>>
    /\ tasks = TasksIdle
    /\ save = SaveIdle

\* one call of detectChartSpec on a text written from some statements
DetectChartCall ==
    /\ nz.stage = "idle"
    /\ \E values \in StatementLists, intro \in BOOLEAN :
          LET text == SectionText(values, intro)
          IN  nz' = [stage |-> "detected", values |-> values, text |-> text,
                     spec |-> detectChartSpec(text)]
    /\ UNCHANGED <<storeVars, bridgeVars, evVars, sessionVars>>

ChartNext == DetectChartCall

ChartSpec == ChartInit /\ [][ChartNext]_vars

\* C20: for a text of at least three statements "label: number" the spec
\* lists the statements' labels and numbers in text order; its type is line
\* when the numbers never fall or never rise from first to last, bar
\* otherwise (10, 4, 6 is a bar, 1, 2, 3 a line).
C20_ChartSpecFromStatements ==
    (nz.stage = "detected" /\ Len(nz.values) >= 3) =>
        LET values == nz.values
            rising == \A k \in 2..Len(values) : values[k] >= values[k - 1]
            falling == \A k \in 2..Len(values) : values[k] <= values[k - 1]
        IN  /\ nz.spec.found
            /\ nz.spec.labels = [k \in 1..Len(values) |-> <<ChartLabels[k]>>]
            /\ nz.spec.data = values
            /\ nz.spec.type = IF rising \/ falling THEN "line" ELSE "bar"
            /\ (values = <<10, 4, 6>> => nz.spec.type = "bar")
            /\ (values = <<1, 2, 3>> => nz.spec.type = "line")

-----------------------------------------------------------------------------
(* Chart detection with imported data, src/js/charting.js:39-117.  A CSV   *)
(* cell is text, a number written out, or empty; a JSON entry is an object *)
(* with or without a label and with a number, a string or no value, or it  *)
(* is null.                                                                *)

\* Most data rows of an imported CSV, most entries of an imported JSON array.
MaxImportRows == 2

TextCell == [kind |-> "text", value |-> 0]

CsvCells ==
    {TextCell, [kind |-> "empty", value |-> 0],
     [kind |-> "number", value |-> 1], [kind |-> "number", value |-> 3]}

\* a data row: a label alone, or a label and a second cell
CsvRows == {<<TextCell>>} \cup {<<TextCell, c>> : c \in CsvCells}

HeaderRow == <<TextCell, TextCell>>

\* importedData.csv: null, or an array of rows whose first is the header
CsvImports ==
    {[given |-> FALSE, rows |-> <<>>], [given |-> TRUE, rows |-> <<>>]}
    \cup {[given |-> TRUE, rows |-> <<HeaderRow>> \o dataRows] :
            dataRows \in UNION {[1..n -> CsvRows] : n \in 0..MaxImportRows}}

JsonEntries ==
    {[object |-> FALSE, label |-> "", valueType |-> "missing", value |-> 0],
     [object |-> TRUE, label |-> "", valueType |-> "number", value |-> 2],
     [object |-> TRUE, label |-> "L", valueType |-> "string", value |-> 0],
     [object |-> TRUE, label |-> "L", valueType |-> "number", value |-> 2],
     [object |-> TRUE, label |-> "L", valueType |-> "number", value |-> 0]}

\* importedData.json: null, or an array of entries
JsonImports ==
    {[given |-> FALSE, entries |-> <<>>]}
    \cup {[given |-> TRUE, entries |-> entries] :
            entries \in UNION {[1..n -> JsonEntries] : n \in 0..MaxImportRows}}

\* !Number.isNaN(Number(cell)): Number('') is 0
CellIsNumber(cell) == cell.kind \in {"number", "empty"}

\* a buildChartFromCsv that returns the spec even without a data point
buildChartFromCsvKeepEmpty(rows) ==
    LET usable == SelectSeq(Tail(rows),
                     LAMBDA row : Len(row) >= 2 /\ CellIsNumber(row[2]))
        values == [k \in 1..Len(usable) |-> usable[k][2].value]
    IN  [found |-> TRUE, type |-> inferChartType(values),
         labels |-> [k \in 1..Len(usable) |-> usable[k][1]],
         data |-> values, rationale |-> "csv"]

buildChartFromCsv(rows) ==
    LET usable == SelectSeq(Tail(rows),
                     LAMBDA row : Len(row) >= 2 /\ CellIsNumber(row[2]))
        values == [k \in 1..Len(usable) |-> usable[k][2].value]
    IN  IF Len(usable) = 0 THEN NoChartSpec
        ELSE [found |-> TRUE, type |-> inferChartType(values),
              labels |-> [k \in 1..Len(usable) |-> usable[k][1]],
              data |-> values, rationale |-> "csv"]

buildChartFromJson(entries) ==
    LET usable == SelectSeq(entries,
                     LAMBDA entry : /\ entry.object
                                    /\ entry.label # ""
                                    /\ entry.valueType = "number")
        values == [k \in 1..Len(usable) |-> usable[k].value]
    IN  IF Len(usable) = 0 THEN NoChartSpec
        ELSE [found |-> TRUE, type |-> inferChartType(values),
              labels |-> [k \in 1..Len(usable) |-> usable[k].label],
              data |-> values, rationale |-> "json"]

\* detectChartSpec(sectionText, importedData)
detectChartSpecWithImports(sectionText, importedData) ==
    IF sectionText = <<>> THEN NoChartSpec
    ELSE LET fromText == detectChartSpec(sectionText)
         IN  IF fromText.found THEN fromText
             ELSE IF importedData.csv.given /\ Len(importedData.csv.rows) > 0
             THEN buildChartFromCsv(importedData.csv.rows)
             ELSE IF importedData.json.given /\ Len(importedData.json.entries) > 0
             THEN buildChartFromJson(importedData.json.entries)
             ELSE NoChartSpec

\* the texts of the calls: empty, two statements, three statements
ImportTexts == {<<>>, SectionText(<<1, 2>>, FALSE), SectionText(<<10, 4, 6>>, FALSE)}

ImportInit ==
    /\ slides = <<>>
    /\ activeSlideIndex = 0
    /\ nz = [stage |-> "idle"]
    /\ ev = EvIdle
    /\ ui = UiUnused
    /\ sessions = <<>>
    /\ calls = <<>>
    /\ tasks = TasksIdle
    /\ save = SaveIdle

\* one call of detectChartSpec with imported data
DetectWithImportsCall ==
    /\ nz.stage = "idle"
    /\ \E text \in ImportTexts, csv \in CsvImports, json \in JsonImports :
          nz' = [stage |-> "detected", text |-> text, csv |-> csv, json |-> json,
                 statements |-> Len(SelectSeq(TextLines(text), LineMatches)),
                 spec |-> detectChartSpecWithImports(text, [csv |-> csv, json |-> json])]
    /\ UNCHANGED <<storeVars, bridgeVars, evVars, sessionVars>>

ImportNext == DetectWithImportsCall

ImportSpec == ImportInit /\ [][ImportNext]_vars

\* C21: a call whose text has fewer than three statements (an empty text
\* included) answers from the CSV when a data row after the header has a
\* number in its second column, else from the JSON when an entry has a
\* label and a number; it returns null only when text, CSV and JSON all
\* lack such a signal.
C21_NullOnlyWithoutNumericSignal ==
    nz.stage = "detected" =>
        LET usableCsv ==
                /\ nz.csv.given
                /\ \E k \in 2..Len(nz.csv.rows) :
                      /\ Len(nz.csv.rows[k]) >= 2
                      /\ nz.csv.rows[k][2].kind = "number"
            usableJson ==
                /\ nz.json.given
                /\ \E k \in 1..Len(nz.json.entries) :
                      /\ nz.json.entries[k].object
                      /\ nz.json.entries[k].label # ""
                      /\ nz.json.entries[k].valueType = "number"
        IN  /\ (nz.statements < 3 /\ usableCsv) =>
                  nz.spec.found /\ nz.spec.rationale = "csv"
            /\ (nz.statements < 3 /\ ~usableCsv /\ usableJson) =>
                  nz.spec.found /\ nz.spec.rationale = "json"
            /\ ~nz.spec.found => (nz.statements < 3 /\ ~usableCsv /\ ~usableJson)

\* C22: a spec that is not null is a line or a bar chart with at least one
\* label and as many values as labels, whichever source it was built from.
C22_SpecIsNeverEmpty ==
    (nz.stage = "detected" /\ nz.spec.found) =>
        /\ nz.spec.type \in {"line", "bar"}
        /\ Len(nz.spec.labels) >= 1
        /\ Len(nz.spec.data) = Len(nz.spec.labels)

\* C22 witness: a CSV whose rows carry no number was answered with null.
C22_Witness ==
    /\ nz.stage = "detected"
    /\ nz.text # <<>>
    /\ nz.statements < 3
    /\ nz.csv.given
    /\ Len(nz.csv.rows) = 3
    /\ ~nz.json.given
    /\ ~nz.spec.found

-----------------------------------------------------------------------------
(* The text layout, src/unnamed/part_001:209-306.  A text is the sequence  *)
(* of the lengths of its words; heights are in hundredths of a pixel, so   *)
(* that size * lineHeightFactor and maxHeight + 0.5 are whole numbers.     *)
(* nz holds one call of drawTextBlock: its arguments and what it painted.  *)

\* ctx.measureText: every character advances by half the font size
CharAdvanceTenths == 5

measureText(chars, size) == chars * size * CharAdvanceTenths

LayoutTexts == {<<>>, <<4>>, <<4, 4>>, <<3, 5, 2>>, <<6, 6, 6, 6>>, <<12>>}

LayoutWidths == {40, 80}

LayoutHeights == {0, 20, 30, 50, 100}

\* baseSize with a minSize not above it, as the callers pass them; 0 is an
\* omitted minSize
LayoutSizes == {[base |-> 16, min |-> 0], [base |-> 16, min |-> 12],
                [base |-> 20, min |-> 12], [base |-> 20, min |-> 16],
                [base |-> 16, min |-> 16]}

\* lineHeightFactor times 100
LineHeightFactors == {120, 140}

\* Denominator of the reveal fractions.
RevealSteps == 4

\* Math.round and Math.floor of size * 0.06 and size * 0.6
RoundHundredths(n) == (n + 50) \div 100

\* splitIntoLines: the lengths of the wrapped lines
RECURSIVE WrapWords(_, _, _, _)
WrapWords(words, line, size, maxWidth) ==
    IF words = <<>> THEN <<line>>
    ELSE LET testLine == line + 1 + Head(words)
         IN  IF measureText(testLine, size) <= maxWidth * 10
             THEN WrapWords(Tail(words), testLine, size, maxWidth)
             ELSE <<line>> \o WrapWords(Tail(words), Head(words), size, maxWidth)

splitIntoLines(words, size, maxWidth) ==
    IF words = <<>> THEN <<>>
    ELSE WrapWords(Tail(words), Head(words), size, maxWidth)

\* the while loop that picks the font size: [size, lines]
RECURSIVE FitSize(_, _, _, _, _, _, _)
FitSize(words, size, min, step, width, maxHeight, factor) ==
    LET lines == splitIntoLines(words, size, width)
    IN  IF Len(lines) * size * factor <= maxHeight * 100 + 50
        THEN [size |-> size, lines |-> lines]
        ELSE IF size - step < min
        THEN [size |-> min, lines |-> splitIntoLines(words, min, width)]
        ELSE FitSize(words, size - step, min, step, width, maxHeight, factor)

\* a paint loop that does not look at the height left
RECURSIVE PaintLinesUnclipped(_, _, _, _, _, _, _)
PaintLinesUnclipped(lines, k, cursor, lineHeight, maxHeight, budget, full) ==
    IF k > Len(lines) THEN <<>>
    ELSE IF ~full /\ budget <= 0 THEN <<>>
    ELSE LET drawn == IF ~full /\ budget < lines[k] THEN budget ELSE lines[k]
         IN  <<drawn>> \o PaintLinesUnclipped(lines, k + 1, cursor + lineHeight,
                              lineHeight, maxHeight, budget - drawn, full)

\* a paint loop that paints every fitting line in full at any reveal
RECURSIVE PaintLinesIgnoringReveal(_, _, _, _, _, _, _)
PaintLinesIgnoringReveal(lines, k, cursor, lineHeight, maxHeight, budget, full) ==
    IF k > Len(lines) THEN <<>>
    ELSE IF cursor + lineHeight > maxHeight * 100 + 50 THEN <<>>
    ELSE <<lines[k]>> \o PaintLinesIgnoringReveal(lines, k + 1, cursor + lineHeight,
                              lineHeight, maxHeight, budget, full)

\* the paint loop: the characters painted on each line that was painted
RECURSIVE PaintLines(_, _, _, _, _, _, _)
PaintLines(lines, k, cursor, lineHeight, maxHeight, budget, full) ==
    IF k > Len(lines) THEN <<>>
    ELSE IF cursor + lineHeight > maxHeight * 100 + 50 THEN <<>>
    ELSE IF ~full /\ budget <= 0 THEN <<>>
    ELSE LET drawn == IF ~full /\ budget < lines[k] THEN budget ELSE lines[k]
         IN  <<drawn>> \o PaintLines(lines, k + 1, cursor + lineHeight, lineHeight,
                                     maxHeight, budget - drawn, full)

\* drawTextBlock on a text of words; reveal is revealNum / RevealSteps
drawTextBlock(words, width, maxHeight, sizes, factor, revealNum) ==
    IF words = <<>>
    THEN [height |-> 0, fontSize |-> sizes.base, min |-> sizes.min,
          lines |-> <<>>, painted |-> <<>>]
    ELSE LET fallbackMin == Max(10, (sizes.base * 60) \div 100)
             min == Max(fallbackMin, IF sizes.min = 0 THEN fallbackMin ELSE sizes.min)
             step == Max(1, RoundHundredths(sizes.base * 6))
             fit == IF sizes.base >= min
                    THEN FitSize(words, sizes.base, min, step, width, maxHeight, factor)
                    ELSE [size |-> sizes.base, lines |-> <<>>]
             lineHeight == fit.size * factor
             clampedReveal == Max(0, Min(RevealSteps, revealNum))
             totalCharacters == SumSeq(fit.lines)
             visibleChars == (totalCharacters * clampedReveal) \div RevealSteps
             painted == PaintLines(fit.lines, 1, 0, lineHeight, maxHeight,
                                   visibleChars, clampedReveal = RevealSteps)
         IN  [height |-> Len(painted) * lineHeight, fontSize |-> fit.size,
              min |-> min, lines |-> fit.lines, painted |-> painted]

LayoutInit ==
    /\ slides = <<>>
    /\ activeSlideIndex = 0
    /\ nz = [stage |-> "idle"]
    /\ ev = EvIdle
    /\ ui = UiUnused
    /\ sessions = <<>>
    /\ calls = <<>>
    /\ tasks = TasksIdle
    /\ save = SaveIdle

\* one call of drawTextBlock
DrawTextBlockCall ==
    /\ nz.stage = "idle"
    /\ \E words \in LayoutTexts, width \in LayoutWidths, maxHeight \in LayoutHeights,
          sizes \in LayoutSizes, factor \in LineHeightFactors,
          revealNum \in 0..RevealSteps :
          nz' = [stage |-> "drawn", words |-> words, width |-> width,
                 maxHeight |-> maxHeight, sizes |-> sizes, factor |-> factor,
                 revealNum |-> revealNum,
                 result |-> drawTextBlock(words, width, maxHeight, sizes, factor,
                                          revealNum)]
    /\ UNCHANGED <<storeVars, bridgeVars, evVars, sessionVars>>

LayoutNext == DrawTextBlockCall

LayoutSpec == LayoutInit /\ [][LayoutNext]_vars

\* the lines of a result that fit the box at the chosen size
FittingLines(result, maxHeight, factor) ==
    {k \in 1..Len(result.lines) :
        k * result.fontSize * factor <= maxHeight * 100 + 50}

\* the reveal part of C23: at reveal 1 every line that fits is painted in
\* full, at reveal 0 nothing is painted, and no smaller reveal paints more
\* characters on the same text and box
RevealHolds ==
    LET result == nz.result
    IN  /\ nz.revealNum = RevealSteps =>
              /\ Len(result.painted) = Cardinality(FittingLines(result, nz.maxHeight, nz.factor))
              /\ \A k \in 1..Len(result.painted) : result.painted[k] = result.lines[k]
        /\ nz.revealNum = 0 => SumSeq(result.painted) = 0
        /\ \A smaller \in 0..nz.revealNum :
              SumSeq(drawTextBlock(nz.words, nz.width, nz.maxHeight, nz.sizes,
                                   nz.factor, smaller).painted)
                 <= SumSeq(result.painted)

\* C23 as stated: the reveal part, and a text that wraps to 2 lines at the
\* base size comes back as exactly 2 lines, whatever the box.
C23_RevealAndTwoLines ==
    nz.stage = "drawn" =>
        /\ RevealHolds
        /\ Len(splitIntoLines(nz.words, nz.sizes.base, nz.width)) = 2
              => Len(nz.result.lines) = 2

\* C23 as the code has it: the reveal part, and a text that wraps to 2
\* lines at the base size comes back as exactly 2 lines when the box is
\* high enough for 2 lines at the base size.
C23_RevealAndTwoLinesThatFit ==
    nz.stage = "drawn" =>
        /\ RevealHolds
        /\ (/\ Len(splitIntoLines(nz.words, nz.sizes.base, nz.width)) = 2
            /\ 2 * nz.sizes.base * nz.factor <= nz.maxHeight * 100 + 50)
              => Len(nz.result.lines) = 2 /\ nz.result.fontSize = nz.sizes.base

\* C23 witness: a text of two lines at the base size, in a box that takes
\* only the first, painted halfway.
C23_Witness ==
    /\ nz.stage = "drawn"
    /\ Len(nz.result.lines) = 2
    /\ Len(splitIntoLines(nz.words, nz.sizes.base, nz.width)) = 2
    /\ nz.revealNum = 2
    /\ Len(nz.result.painted) = 1
    /\ nz.result.painted[1] < nz.result.lines[1]

\* C30: what was painted ends within maxHeight + 0.5 of the top of the box,
\* every line that does not fit was left out, and the font size lies
\* between the effective minimum and the base size.
C30_PaintedWithinHeight ==
    (nz.stage = "drawn" /\ nz.words # <<>>) =>
        /\ nz.result.height <= nz.maxHeight * 100 + 50
        /\ Len(nz.result.painted) <=
              Cardinality(FittingLines(nz.result, nz.maxHeight, nz.factor))
        /\ nz.result.min <= nz.result.fontSize
        /\ nz.result.fontSize <= nz.sizes.base

\* C30 witness: at the minimum size the text still has more lines than the
\* box takes, and the last ones were dropped.
C30_Witness ==
    /\ nz.stage = "drawn"
    /\ nz.revealNum = RevealSteps
    /\ nz.result.fontSize = nz.result.min
    /\ nz.result.fontSize < nz.sizes.base
    /\ Len(nz.result.painted) >= 1
    /\ Len(nz.result.painted) < Len(nz.result.lines)

-----------------------------------------------------------------------------
(* What a call leaves of its argument.  nz holds one call: the content of  *)
(* the caller's objects before the call (before), their content after it   *)
(* (after), what the call returned, and whether the returned objects are   *)
(* the caller's own (aliased).                                             *)

ArgumentInit ==
    /\ slides = <<>>
    /\ activeSlideIndex = 0
    /\ nz = [stage |-> "idle"]
    /\ ev = EvIdle
    /\ ui = UiUnused
    /\ sessions = <<>>
    /\ calls = <<>>
    /\ tasks = TasksIdle
    /\ save = SaveIdle

\* normalizeSlide(slide): the fields are assigned on the argument, which is
\* also what is returned
NormalizeSlideCall ==
    /\ nz.stage = "idle"
    /\ \E raw \in RawSlides :
          nz' = [stage |-> "returned", call |-> "normalizeSlide",
                 before |-> <<raw>>,
                 after |-> <<normalizeSlide(raw)>>,
                 returned |-> <<normalizeSlide(raw)>>,
                 aliased |-> TRUE]
    /\ UNCHANGED <<storeVars, bridgeVars, evVars, sessionVars>>

\* setSlides(deck): state.slides is a new array of the caller's objects,
\* each normalized in place
SetSlidesCall ==
    /\ nz.stage = "idle"
    /\ \E deck \in StoreRawDecks :
          /\ nz' = [stage |-> "returned", call |-> "setSlides",
                    before |-> deck,
                    after |-> setSlides(deck),
                    returned |-> setSlides(deck),
                    aliased |-> Len(deck) > 0]
          /\ slides' = setSlides(deck)
          /\ activeSlideIndex' = 0
    /\ UNCHANGED <<bridgeVars, evVars, sessionVars>>

\* sanitizeSlideForExport(slide): a new object is built from the argument
SanitizeSlideCall ==
    /\ nz.stage = "idle"
    /\ \E raw \in RawSlides :
          LET slide == [raw EXCEPT !.bullets = BulletsOrEmpty(raw.bullets)]
          IN  nz' = [stage |-> "returned", call |-> "sanitizeSlideForExport",
                     before |-> <<slide>>,
                     after |-> <<slide>>,
                     returned |-> <<sanitizeSlideForExport(slide)>>,
                     aliased |-> FALSE]
    /\ UNCHANGED <<storeVars, bridgeVars, evVars, sessionVars>>

ArgumentNext ==
    \/ NormalizeSlideCall
    \/ SetSlidesCall
    \/ SanitizeSlideCall

ArgumentSpec == ArgumentInit /\ [][ArgumentNext]_vars

\* C24: a call of normalizeSlide or setSlides leaves the caller's records as
\* they were and returns normalized records that are not the caller's.
C24_NormalizeLeavesArgument ==
    (nz.stage = "returned" /\ nz.call \in {"normalizeSlide", "setSlides"}) =>
        /\ nz.after = nz.before
        /\ ~nz.aliased
        /\ \A i \in 1..Len(nz.returned) :
              nz.returned[i] = normalizeSlide(nz.before[i])

-----------------------------------------------------------------------------
(* The hero image cache, src/unnamed/part_001:66-76 and 171-207.  nz holds *)
(* heroCache (the keys it has), the calls of loadHeroImage with the image  *)
(* request each one waits for, the keys for which a call has completed,    *)
(* and the keys for which a call that started after that issued a request. *)

\* Calls of loadHeroImage.
MaxHeroCalls == 3

\* getHeroCacheKey: slide id and explicit image, or slide id, prompt and
\* headline
HeroKeys == {"image:s1:url", "prompt:s1:p|h", "prompt:s2:p|h"}

\* slide.heroImage is set
HasExplicitImage(key) == key = "image:s1:url"

NoHeroCall == [key |-> "none", waits |-> "none"]

HeroInit ==
    /\ slides = <<>>
    /\ activeSlideIndex = 0
    /\ nz = [stage |-> "hero", heroCache |-> {}, completed |-> {}, late |-> {},
             heroCalls |-> [c \in 1..MaxHeroCalls |-> NoHeroCall]]
    /\ ev = EvIdle
    /\ ui = UiUnused
    /\ sessions = <<>>
    /\ calls = <<>>
    /\ tasks = TasksIdle
    /\ save = SaveIdle

heroUnchanged == UNCHANGED <<storeVars, bridgeVars, evVars, sessionVars>>

\* the image of call c loaded: heroCache.set and return
HeroLoaded(c) ==
    [nz EXCEPT !.heroCalls[c].waits = "done",
               !.heroCache = @ \cup {nz.heroCalls[c].key},
               !.completed = @ \cup {nz.heroCalls[c].key}]

\* loadHeroImage(slide) up to its first await, or to its return on a hit
LoadHeroImage ==
    /\ nz.stage = "hero"
    /\ \E c \in 1..MaxHeroCalls, key \in HeroKeys :
          /\ nz.heroCalls[c] = NoHeroCall
          /\ \A d \in 1..(c - 1) : nz.heroCalls[d] # NoHeroCall
          /\ IF key \in nz.heroCache
             THEN nz' = [nz EXCEPT !.heroCalls[c] = [key |-> key, waits |-> "done"],
                                   !.completed = @ \cup {key}]
             ELSE nz' = [nz EXCEPT
                           !.heroCalls[c] =
                               [key |-> key,
                                waits |-> IF HasExplicitImage(key)
                                          THEN "explicit" ELSE "seeded"],
                           !.late = IF key \in nz.completed
                                    THEN @ \cup {key} ELSE @]
    /\ heroUnchanged

\* loadImage(slide.heroImage) resolves
ExplicitImageLoads ==
    /\ nz.stage = "hero"
    /\ \E c \in 1..MaxHeroCalls :
          /\ nz.heroCalls[c].waits = "explicit"
          /\ nz' = HeroLoaded(c)
    /\ heroUnchanged

\* loadImage(slide.heroImage) rejects: the seeded image is requested
ExplicitImageFails ==
    /\ nz.stage = "hero"
    /\ \E c \in 1..MaxHeroCalls :
          /\ nz.heroCalls[c].waits = "explicit"
          /\ nz' = [nz EXCEPT !.heroCalls[c].waits = "seeded"]
    /\ heroUnchanged

\* loadImage(url) of the seeded image resolves
SeededImageLoads ==
    /\ nz.stage = "hero"
    /\ \E c \in 1..MaxHeroCalls :
          /\ nz.heroCalls[c].waits = "seeded"
          /\ nz' = HeroLoaded(c)
    /\ heroUnchanged

\* loadImage(url) of the seeded image rejects: null is returned
SeededImageFails ==
    /\ nz.stage = "hero"
    /\ \E c \in 1..MaxHeroCalls :
          /\ nz.heroCalls[c].waits = "seeded"
          /\ nz' = [nz EXCEPT !.heroCalls[c].waits = "done",
                              !.completed = @ \cup {nz.heroCalls[c].key}]
    /\ heroUnchanged

HeroNext ==
    \/ LoadHeroImage
    \/ ExplicitImageLoads
    \/ ExplicitImageFails
    \/ SeededImageLoads
    \/ SeededImageFails

HeroSpec == HeroInit /\ [][HeroNext]_vars

\* C26: no call of loadHeroImage that starts after a call for the same key
\* has completed issues an image request.
C26_NoRequestAfterFirstCompleted ==
    nz.stage = "hero" => nz.late = {}

-----------------------------------------------------------------------------
(* The frame count of exportVideo *)

\* C27: with budgets b_i = ceil(duration_i / 1000 * 30), while slide i is
\* drawn the counter is the budgets and fades of the slides before it plus
\* the frames of slide i drawn so far, fewer than b_i; a fade runs only
\* towards a next slide and adds at most 12 frames; the counter never
\* exceeds totalFrames = sum of b_i + 12 * (n - 1) and equals it when
\* exportVideo resolves.
C27_FrameCountMatchesBudget ==
    ev.pc \notin {"idle", "start"} /\ ev.mediaRecorder =>
        LET n == Len(ev.durations)
            b == [i \in 1..n |-> Ceil(ev.durations[i] * 30, 1000)]
            total == SumSeq(b) + 12 * Max(0, n - 1)
            done(k) == SumSeq(SubSeq(b, 1, k)) + 12 * Min(k, Max(0, n - 1))
        IN  /\ ev.renderedFrames <= total
            /\ ev.pc \in {"draw", "wait"} =>
                  /\ ev.slideIndex < n
                  /\ ev.frame < b[ev.slideIndex + 1]
                  /\ ev.renderedFrames = done(ev.slideIndex) + ev.frame
            /\ ev.pc \in {"fadeDraw", "fadeWait"} =>
                  /\ ev.slideIndex + 1 < n
                  /\ ev.renderedFrames >= SumSeq(SubSeq(b, 1, ev.slideIndex + 1))
                                             + 12 * ev.slideIndex
                  /\ ev.renderedFrames < done(ev.slideIndex + 1)
            /\ ev.pc = "fadeWait" =>
                  ev.renderedFrames = SumSeq(SubSeq(b, 1, ev.slideIndex + 1))
                                          + 12 * ev.slideIndex + ev.fadeFrame
            /\ ev.outcome = "resolved" => ev.renderedFrames = total

\* C27 witness: an export of two slides resolved after the frames of both
\* and the 12 frames of the fade between them.
C27_Witness ==
    /\ ev.pc = "settled"
    /\ ev.outcome = "resolved"
    /\ Len(ev.durations) = 2
    /\ ev.renderedFrames = Ceil(ev.durations[1] * 30, 1000)
                              + Ceil(ev.durations[2] * 30, 1000) + 12

-----------------------------------------------------------------------------
(* The chunks of chunkPages *)

RECURSIVE Flatten(_)
Flatten(seqs) == IF seqs = <<>> THEN <<>> ELSE Head(seqs) \o Flatten(Tail(seqs))

\* C28: for a document of at least one page and k >= 1 candidates there
\* are exactly k chunks, each a run of consecutive page indices, and the
\* chunks put one after the other are the page indices 0, 1, ... in order,
\* so that every page is in exactly one chunk.
C28_ChunksPartitionPages ==
    (nz.stage = "synthesized" /\ Len(nz.pages) >= 1 /\ nz.candidates >= 1) =>
        /\ Len(nz.chunks) = nz.candidates
        /\ \A c \in 1..Len(nz.chunks) :
              \A i \in 2..Len(nz.chunks[c]) :
                  nz.chunks[c][i] = nz.chunks[c][i - 1] + 1
        /\ Flatten(nz.chunks) = [i \in 1..Len(nz.pages) |-> i - 1]
        /\ \A i \in 1..nz.candidates : nz.sourcePages[i] = nz.chunks[i]

\* C28 witness: five pages were cut for four candidates into chunks of two,
\* the last of them empty.
C28_Witness ==
    /\ nz.stage = "synthesized"
    /\ Len(nz.pages) = 5
    /\ nz.candidates = 4
    /\ nz.chunks = <<<<0, 1>>, <<2, 3>>, <<4>>, <<>>>>

-----------------------------------------------------------------------------
(* resolveTemplate on the text of the hint, src/js/analyzer.js:153-165.    *)
(* The hint is a sequence of one-character strings, or not a string; nz    *)
(* holds one call: what the hint was written from, the hint, the bullets,  *)
(* the chart hint and the result.                                          *)

\* Most bullets of a candidate.
MaxHintBullets == 5

UpperLetters == <<"A", "C", "D", "E", "G", "H", "I", "M", "Q", "R", "T", "U", "X">>

LowerLetters == <<"a", "c", "d", "e", "g", "h", "i", "m", "q", "r", "t", "u", "x">>

toLowerCase(chars) ==
    [i \in 1..Len(chars) |->
        IF \E k \in 1..Len(UpperLetters) : UpperLetters[k] = chars[i]
        THEN LowerLetters[CHOOSE k \in 1..Len(UpperLetters) : UpperLetters[k] = chars[i]]
        ELSE chars[i]]

toUpperCase(chars) ==
    [i \in 1..Len(chars) |->
        IF \E k \in 1..Len(LowerLetters) : LowerLetters[k] = chars[i]
        THEN UpperLetters[CHOOSE k \in 1..Len(LowerLetters) : LowerLetters[k] = chars[i]]
        ELSE chars[i]]

TemplateChars(template) ==
    CASE template = "text-image" ->
            <<"t", "e", "x", "t", "-", "i", "m", "a", "g", "e">>
      [] template = "text-image-chart" ->
            <<"t", "e", "x", "t", "-", "i", "m", "a", "g", "e", "-",
              "c", "h", "a", "r", "t">>
      [] template = "quad-grid" ->
            <<"q", "u", "a", "d", "-", "g", "r", "i", "d">>

\* how a hint is written from a template name
HintVariations == {"exact", "padded", "upper", "capitalized", "spaced", "suffixed"}

WriteHint(template, variation) ==
    LET name == TemplateChars(template)
    IN  CASE variation = "exact" -> name
          [] variation = "padded" -> <<" ">> \o name \o <<"\n">>
          [] variation = "upper" -> <<" ">> \o toUpperCase(name)
          [] variation = "capitalized" -> toUpperCase(<<name[1]>>) \o Tail(name)
          [] variation = "spaced" ->
                SubSeq(name, 1, 4) \o <<" ">> \o SubSeq(name, 5, Len(name))
          [] variation = "suffixed" -> name \o <<"s">>

\* the template member of a candidate: a hint written from a template
\* name, some other text, or no string
PreferredHints ==
    {[string |-> TRUE, from |-> t, variation |-> v, chars |-> WriteHint(t, v)] :
        t \in Templates, v \in HintVariations}
    \cup {[string |-> TRUE, from |-> "none", variation |-> "other", chars |-> c] :
            c \in {<<>>, <<" ">>, <<"g", "r", "i", "d">>}}
    \cup {[string |-> FALSE, from |-> "none", variation |-> "other", chars |-> <<>>]}

\* chartHint: null, empty, or a text
ChartHints == {"none", "", "Revenue: 10"}

\* a normalization of the hint that keeps its case
trimOnly(preferred) == IF preferred.string THEN Trim(preferred.chars) ELSE <<>>

\* typeof preferred === 'string' ? preferred.trim().toLowerCase() : ''
trimLowerCase(preferred) ==
    IF preferred.string THEN toLowerCase(Trim(preferred.chars)) ELSE <<>>

resolveTemplateText(preferred, bullets, chartHint) ==
    LET normalized == trimLowerCase(preferred)
    IN  IF \E t \in Templates : normalized = TemplateChars(t)
        THEN CHOOSE t \in Templates : normalized = TemplateChars(t)
        ELSE IF chartHint \notin {"none", ""} THEN "text-image-chart"
        ELSE IF Len(bullets) >= 4 THEN "quad-grid"
        ELSE "text-image"

TemplateInit ==
    /\ slides = <<>>
    /\ activeSlideIndex = 0
    /\ nz = [stage |-> "idle"]
    /\ ev = EvIdle
    /\ ui = UiUnused
    /\ sessions = <<>>
    /\ calls = <<>>
    /\ tasks = TasksIdle
    /\ save = SaveIdle

\* one call of resolveTemplate
ResolveTemplateCall ==
    /\ nz.stage = "idle"
    /\ \E preferred \in PreferredHints, count \in 0..MaxHintBullets,
          chartHint \in ChartHints :
          nz' = [stage |-> "resolved", preferred |-> preferred,
                 bullets |-> BulletList(count), chartHint |-> chartHint,
                 template |-> resolveTemplateText(preferred, BulletList(count),
                                                  chartHint)]
    /\ UNCHANGED <<storeVars, bridgeVars, evVars, sessionVars>>

TemplateNext == ResolveTemplateCall

TemplateSpec == TemplateInit /\ [][TemplateNext]_vars

\* C29: a hint that is a known template name up to surrounding white space
\* and letter case gives that template; otherwise a non-empty chart hint
\* gives text-image-chart; otherwise 4 or more bullets give quad-grid;
\* otherwise text-image.  The result is one of the three templates.
C29_TemplatePriority ==
    nz.stage = "resolved" =>
        LET explicit == nz.preferred.variation \in
                            {"exact", "padded", "upper", "capitalized"}
        IN  /\ nz.template \in {"text-image", "text-image-chart", "quad-grid"}
            /\ nz.template =
                  (IF explicit THEN nz.preferred.from
                   ELSE IF nz.chartHint \notin {"none", ""} THEN "text-image-chart"
                   ELSE IF Len(nz.bullets) >= 4 THEN "quad-grid"
                   ELSE "text-image")

\* C29 witness: the hint " TEXT-IMAGE" won over a chart hint and five
\* bullets.
C29_Witness ==
    /\ nz.stage = "resolved"
    /\ nz.preferred.from = "text-image"
    /\ nz.preferred.variation = "upper"
    /\ nz.chartHint = "Revenue: 10"
    /\ Len(nz.bullets) = 5
    /\ nz.template = "text-image"

-----------------------------------------------------------------------------
(* buildDocumentPrompt on the characters of the pages,                     *)
(* src/js/analyzer.js:121-151.  A text is a sequence of runs, each a       *)
(* number of white space characters or of other characters; the prompt is  *)
(* a sequence of runs that also name the page and the part of the segment  *)
(* they belong to.  nz holds one call: the pages and the prompt.           *)

\* maxChars and perPageLimit, the defaults of buildDocumentPrompt
maxChars == 18000

perPageLimit == 900

\* the length of 'Document contained no readable text.'
PlaceholderLength == 36

PlaceholderRuns ==
    <<[kind |-> "w", len |-> PlaceholderLength, part |-> "placeholder", page |-> 0]>>

RECURSIVE RunsLength(_)
RunsLength(runs) ==
    IF runs = <<>> THEN 0 ELSE Head(runs).len + RunsLength(Tail(runs))

\* String.prototype.trim on runs
RECURSIVE TrimRuns(_)
TrimRuns(runs) ==
    IF runs = <<>> THEN runs
    ELSE IF Head(runs).kind = "s" \/ Head(runs).len = 0 THEN TrimRuns(Tail(runs))
    ELSE IF runs[Len(runs)].kind = "s" \/ runs[Len(runs)].len = 0
         THEN TrimRuns(SubSeq(runs, 1, Len(runs) - 1))
    ELSE runs

\* String.prototype.slice(0, end) on runs
RECURSIVE SliceRuns(_, _)
SliceRuns(runs, end) ==
    IF runs = <<>> \/ end <= 0 THEN <<>>
    ELSE IF Head(runs).len <= end
         THEN <<Head(runs)>> \o SliceRuns(Tail(runs), end - Head(runs).len)
    ELSE <<[Head(runs) EXCEPT !.len = end]>>

\* text.replace(/\s+/g, ' ').trim(): every white space run becomes one space
cleanText(text) ==
    TrimRuns([i \in 1..Len(text) |->
                IF text[i].kind = "s" THEN [text[i] EXCEPT !.len = 1] ELSE text[i]])

\* the number of decimal digits of a page number
DecimalDigits(n) == IF n < 10 THEN 1 ELSE IF n < 100 THEN 2 ELSE 3

Ellipsis(page) == [kind |-> "w", len |-> 1, part |-> "ellipsis", page |-> page]

\* a truncation that keeps perPageLimit characters before the ellipsis
truncateKeepLimit(cleaned) == TrimRuns(SliceRuns(cleaned, perPageLimit))

\* cleaned.slice(0, perPageLimit - 1).trim()
truncate(cleaned) == TrimRuns(SliceRuns(cleaned, perPageLimit - 1))

\* `Page ${page.index + 1}: ${truncated}`, or <<>> for a page without text
PageSegment(page) ==
    LET cleaned == cleanText(page.text)
        number == page.index + 1
        tagged(runs) == [i \in 1..Len(runs) |->
                            [kind |-> runs[i].kind, len |-> runs[i].len,
                             part |-> "text", page |-> number]]
        truncated == IF RunsLength(cleaned) > perPageLimit
                     THEN tagged(truncate(cleaned)) \o <<Ellipsis(number)>>
                     ELSE tagged(cleaned)
    IN  IF cleaned = <<>> THEN <<>>
        ELSE <<[kind |-> "w", len |-> 4, part |-> "prefix", page |-> number],
               [kind |-> "s", len |-> 1, part |-> "prefix", page |-> number],
               [kind |-> "w", len |-> DecimalDigits(number) + 1,
                part |-> "prefix", page |-> number],
               [kind |-> "s", len |-> 1, part |-> "prefix", page |-> number]>>
             \o truncated

LineBreaks(page) == [kind |-> "s", len |-> 2, part |-> "break", page |-> page]

\* the loop over the segments: the segments assembled so far, each after
\* the first behind its line breaks, their length, and the segments left
RECURSIVE Assemble(_, _, _)
Assemble(assembled, length, segments) ==
    IF segments = <<>> THEN assembled
    ELSE LET segment == Head(segments)
             page == segment[1].page
             size == RunsLength(segment)
         IN  IF length = 0
             THEN Assemble(<<segment>>, size, Tail(segments))
             ELSE IF length + size + 2 <= maxChars
             THEN Assemble(Append(assembled, <<LineBreaks(page)>> \o segment),
                           length + size + 2, Tail(segments))
             ELSE LET remaining == maxChars - length - 5
                  IN  IF remaining > 0
                      THEN Append(assembled,
                                  <<LineBreaks(page)>>
                                    \o TrimRuns(SliceRuns(segment, remaining))
                                    \o <<Ellipsis(page)>>)
                      ELSE assembled

\* the prompt as the sequence of its segments
buildDocumentPromptRuns(pages) ==
    LET all == [i \in 1..Len(pages) |-> PageSegment(pages[i])]
        segments == SelectSeq(all, LAMBDA segment : segment # <<>>)
    IN  IF Len(pages) = 0 \/ segments = <<>> THEN <<PlaceholderRuns>>
        ELSE Assemble(<<>>, 0, segments)

Word(n) == [kind |-> "w", len |-> n]

Space(n) == [kind |-> "s", len |-> n]

\* the texts of the pages after the first
PageTexts ==
    {<<>>, <<Space(3)>>, <<Word(4)>>,
     <<Space(2), Word(4), Space(3), Word(5), Space(1)>>,
     <<Word(900)>>, <<Word(901)>>,
     <<Word(898), Space(1), Word(50)>>,
     <<Word(500), Space(700), Word(500)>>}

\* the lengths of the first page's text: with 900 characters on each later
\* page the prompt reaches the global budget at the 21st page
FirstLengths == {4} \cup (680..692)

\* a document: the first page a word, later pages of one text, where the
\* pattern gives them text
PromptPages(count, pattern, first, text) ==
    [i \in 1..count |->
        [index |-> i - 1,
         text |-> IF ~(pattern = "all" \/ (pattern = "odd" /\ i % 2 = 1))
                  THEN <<>>
                  ELSE IF i = 1 THEN <<Word(first)>> ELSE text]]

PromptInit ==
    /\ slides = <<>>
    /\ activeSlideIndex = 0
    /\ nz = [stage |-> "idle"]
    /\ ev = EvIdle
    /\ ui = UiUnused
    /\ sessions = <<>>
    /\ calls = <<>>
    /\ tasks = TasksIdle
    /\ save = SaveIdle

\* one call of buildDocumentPrompt
BuildDocumentPromptCall ==
    /\ nz.stage = "idle"
    /\ \E count \in 0..MaxPages, pattern \in TextPatterns,
          first \in FirstLengths, text \in PageTexts :
          LET pages == PromptPages(count, pattern, first, text)
          IN  nz' = [stage |-> "built", pages |-> pages,
                     prompt |-> buildDocumentPromptRuns(pages)]
    /\ UNCHANGED <<storeVars, bridgeVars, evVars, sessionVars>>

PromptNext == BuildDocumentPromptCall

PromptSpec == PromptInit /\ [][PromptNext]_vars

PromptLength(prompt) == SumSeq([i \in 1..Len(prompt) |-> RunsLength(prompt[i])])

\* the characters of the prompt that are text of the page numbered page
PageTextLength(prompt, page) ==
    SumSeq([i \in 1..Len(prompt) |->
        RunsLength(SelectSeq(prompt[i],
            LAMBDA run : run.page = page /\ run.part \in {"text", "ellipsis"}))])

HasText(page) == \E i \in 1..Len(page.text) :
                    page.text[i].kind = "w" /\ page.text[i].len > 0

\* C31: the prompt is at most 18000 characters long, holds at most 900
\* characters of text for each page after the page-number prefix, keeps the
\* pages in document order, and is the placeholder exactly when no page has
\* text that is not blank.
C31_PromptWithinBudget ==
    nz.stage = "built" =>
        /\ PromptLength(nz.prompt) <= 18000
        /\ \A p \in 1..Len(nz.pages) : PageTextLength(nz.prompt, p) <= 900
        /\ \A i, j \in 1..Len(nz.prompt) :
              i < j => \A k \in 1..Len(nz.prompt[i]), l \in 1..Len(nz.prompt[j]) :
                          nz.prompt[i][k].page < nz.prompt[j][l].page
        /\ (nz.prompt = <<PlaceholderRuns>>) <=>
              (\A i \in 1..Len(nz.pages) : ~HasText(nz.pages[i]))

\* C31 witness: a document of 31 pages, each after the first longer than
\* 900 characters, whose prompt was cut at the global budget inside a
\* segment and leaves out the pages behind it.
C31_Witness ==
    /\ nz.stage = "built"
    /\ Len(nz.pages) = 31
    /\ \A i \in 2..31 : RunsLength(nz.pages[i].text) > 900
    /\ \E p \in 1..31 : PageTextLength(nz.prompt, p) = 900
    /\ PromptLength(nz.prompt) > 17000
    /\ \E p \in 1..31 : PageTextLength(nz.prompt, p) = 0

-----------------------------------------------------------------------------
(* The render-start handler and handlePdfFile with the identity of the     *)
(* PDF, src/unnamed/part_000:753-797 and 1296-1335.  PDFs are numbered in  *)
(* the order they are loaded, 0 is no PDF.  nz holds the number of the PDF *)
(* in state, the number of PDFs loaded so far, the PDF the deck in state   *)
(* was synthesized from, the PDF each synthesizeSlides call in flight was  *)
(* started with (currentState.pdfPages), and the handlePdfFile calls that  *)
(* await extractPdfText.                                                   *)

\* Most handlePdfFile calls, and most clicks on render start that pass the
\* payload check.
MaxRenderLoads == 3

MaxRenderClicks == 3

RenderInit ==
    /\ slides = <<>>
    /\ activeSlideIndex = 0
    /\ nz = [stage |-> "session", pdf |-> 0, loaded |-> 0, deckPdf |-> 0,
             syntheses |-> <<>>, parsing |-> 0, begun |-> 0, clicks |-> 0]
    /\ ev = EvIdle
    /\ ui = [button |-> "idle", session |-> 0,
             exportVideoDisabled |-> TRUE, exportAltDisabled |-> TRUE,
             previewSaveDisabled |-> TRUE,
             renderStartDisabled |-> TRUE, renderBusy |-> FALSE,
             stage |-> "idle", pdf |-> FALSE, bridge |-> FALSE]
    /\ sessions = <<>>
    /\ calls = <<>>
    /\ tasks = TasksIdle
    /\ save = SaveIdle

renderUnchanged == UNCHANGED <<activeSlideIndex, bridgeVars, evVars, calls, tasks>>

RemoveAt(seq, i) == SubSeq(seq, 1, i - 1) \o SubSeq(seq, i + 1, Len(seq))

\* handlePdfFile up to `await extractPdfText(...)`
PdfFileChosen ==
    /\ nz.stage = "session"
    /\ nz.begun < MaxRenderLoads
    /\ ui' = [ui EXCEPT !.renderStartDisabled = TRUE]
    /\ nz' = [nz EXCEPT !.parsing = @ + 1, !.begun = @ + 1]
    /\ UNCHANGED <<slides, sessions>>
    /\ renderUnchanged

\* extractPdfText resolves: setPdf, setPdfPages, setSlides([]), file-ready
PdfFileParsed ==
    /\ nz.stage = "session"
    /\ nz.parsing > 0
    /\ LET a == StoreSetPdf(World, TRUE)
           b == StoreSetSlides(a, <<>>)
           c == setStage(b, "file-ready")
       IN  Commit([c EXCEPT !.ui.renderStartDisabled = ~hasPdfPayload(c)])
    /\ nz' = [nz EXCEPT !.parsing = @ - 1, !.loaded = @ + 1,
                        !.pdf = nz.loaded + 1, !.deckPdf = 0]
    /\ renderUnchanged

\* extractPdfText rejects
PdfFileRejected ==
    /\ nz.stage = "session"
    /\ nz.parsing > 0
    /\ LET a == setStage(World, IF hasPdfPayload(World) THEN "file-ready" ELSE "idle")
       IN  Commit([a EXCEPT !.ui.renderStartDisabled = ~hasPdfPayload(a)])
    /\ nz' = [nz EXCEPT !.parsing = @ - 1]
    /\ renderUnchanged

\* click on render start, up to `await synthesizeSlides(...)`; the control
\* is enabled only while the state holds a payload
RenderClicked ==
    /\ nz.stage = "session"
    /\ ~ui.renderStartDisabled
    /\ hasPdfPayload(World)
    /\ nz.clicks < MaxRenderClicks
    /\ LET a == setStage(World, "rendering")
       IN  Commit([a EXCEPT !.ui.renderStartDisabled = TRUE, !.ui.renderBusy = TRUE])
    /\ nz' = [nz EXCEPT !.syntheses = Append(@, nz.pdf), !.clicks = @ + 1]
    /\ renderUnchanged

\* the continuation of the handler after call i resolved: setSlides, finally
SynthesisCommits(i) ==
    /\ LET a == StoreSetSlides(World, SynthesizedDeck)
       IN  Commit([a EXCEPT !.ui.renderBusy = FALSE,
                            !.ui.renderStartDisabled = ~hasPdfPayload(a)])
    /\ nz' = [nz EXCEPT !.syntheses = RemoveAt(@, i), !.deckPdf = nz.syntheses[i]]

\* synthesizeSlides resolves
RenderResolved ==
    /\ nz.stage = "session"
    /\ \E i \in 1..Len(nz.syntheses) : SynthesisCommits(i)
    /\ renderUnchanged

\* synthesizeSlides rejects: catch, finally
RenderRejected ==
    /\ nz.stage = "session"
    /\ \E i \in 1..Len(nz.syntheses) :
          /\ LET a == setStage(World,
                               IF hasPdfPayload(World) THEN "file-ready" ELSE "idle")
             IN  Commit([a EXCEPT !.ui.renderBusy = FALSE,
                                  !.ui.renderStartDisabled = ~hasPdfPayload(a)])
          /\ nz' = [nz EXCEPT !.syntheses = RemoveAt(@, i)]
    /\ renderUnchanged

\* click on the new-session trigger: resetSessionState
RenderSessionReset ==
    /\ nz.stage = "session"
    /\ ~newSessionTriggerDisabled(ui)
    /\ Commit(resetSessionState(World))
    /\ nz' = [nz EXCEPT !.pdf = 0, !.deckPdf = 0]
    /\ renderUnchanged

RenderNext ==
    \/ PdfFileChosen
    \/ PdfFileParsed
    \/ PdfFileRejected
    \/ RenderClicked
    \/ RenderResolved
    \/ RenderRejected
    \/ RenderSessionReset

RenderSpec == RenderInit /\ [][RenderNext]_vars

\* C32: whenever the deck is not empty, it was synthesized from the PDF
\* that is in state.
C32_DeckFromCurrentPdf ==
    (nz.stage = "session" /\ Len(slides) > 0) =>
        (nz.pdf # 0 /\ nz.deckPdf = nz.pdf)

\* C33: at most one synthesizeSlides call is in flight, and while one is in
\* flight the render-start control is disabled.
C33_OneSynthesisInFlight ==
    nz.stage = "session" =>
        /\ Len(nz.syntheses) <= 1
        /\ Len(nz.syntheses) > 0 => ui.renderStartDisabled

-----------------------------------------------------------------------------
(* The recorder and the abort listeners when exportVideo settles *)

\* C34: when a call of exportVideo that started the recorder has settled
\* (resolved, rejected with the AbortError or with the error of a draw),
\* the recorder has been stopped and neither the abort handler of
\* exportVideo nor the abort listener of waitForFrame is attached to the
\* signal.
C34_SettledCallLeavesNothingBehind ==
    (ev.pc = "settled" /\ ev.recorder # "inactive") =>
        /\ ev.recorder \in {"stopping", "stopped"}
        /\ ~ev.abortHandlerAttached
        /\ ~ev.waitListenerAttached

\* C34 witness: a draw failed after frames had been rendered; the call
\* rejected with the recorder stopped and no listener attached.
C34_Witness ==
    /\ ev.pc = "settled"
    /\ ev.outcome = "Error"
    /\ ev.mediaRecorder
    /\ ev.renderedFrames > 0
    /\ ev.recorder \in {"stopping", "stopped"}
    /\ ~ev.abortHandlerAttached
    /\ ~ev.waitListenerAttached

-----------------------------------------------------------------------------
(* The calls of saveBlob after the platform gave the request up *)

\* C35: once the platform has reported cancelled or error for the request,
\* saveBlob logs no further writeDownloadChunk and no completeDownload.
C35_NoWritesAfterPlatformRejects ==
    [][ save.platformError # "none" =>
           \A k \in (Len(save.log) + 1)..Len(save'.log) :
               save'.log[k].call \notin {"writeDownloadChunk", "completeDownload"} ]_vars

-----------------------------------------------------------------------------
(* exportVideo under fair scheduling: the call is made, every pending draw *)
(* and every frame timer completes, and a stopped recorder delivers its    *)
(* stop event.                                                             *)

ExportVideoFairSpec ==
    /\ ExportVideoSpec
    /\ WF_vars(EvCall)
    /\ WF_vars(EvDrawDone)
    /\ WF_vars(EvFrameTimer)
    /\ WF_vars(EvFadeDrawDone)
    /\ WF_vars(EvFadeTimer)
    /\ WF_vars(EvRecorderStop)

\* C36: every call of exportVideo settles, and once the signal is aborted
\* the call moves on from the draw or wait it is pending in only by
\* rejecting.
C36_ExportVideoSettles ==
    /\ <>(ev.pc = "settled")
    /\ [][ (ev'.aborted /\ ev'.pc # ev.pc) =>
              (ev'.pc = "settled" /\ ev'.outcome \in {"AbortError", "Error"}) ]_vars

\* C36 witness: the signal was aborted during a slide draw of the second
\* slide; the draw completed and the call rejected.
C36_Witness ==
    /\ ev.pc = "settled"
    /\ ev.abortedAt = "draw"
    /\ ev.slideIndex = 1
    /\ ev.outcome = "AbortError"

-----------------------------------------------------------------------------
(* The store fed by the render-start handler only: every deck handed to    *)
(* setSlides comes from synthesizeSlides.                                  *)

SynthesizedNext ==
    \/ RenderStartCommit
    \/ UpdateSlide
    \/ ReorderSlides
    \/ ToggleSlideChart

SynthesizedSpec == Init /\ [][SynthesizedNext]_vars

\* C37: in every state reachable through setSlides on synthesized decks,
\* updateSlide, reorderSlides and toggleSlideChart, a slide whose
\* chartEnabled is true has a chart spec.
C37_EnabledChartHasSpec ==
    \A i \in 1..Len(slides) :
        slides[i].chartEnabled = "true" => slides[i].chartSpec # "none"

-----------------------------------------------------------------------------
(* The active slide and the order of the deck *)

\* C38: in every state reachable through setSlides, updateSlide,
\* reorderSlides, toggleSlideChart and setActiveSlide, activeSlideIndex is
\* 0 when the deck is empty and otherwise an index of the deck.
C38_ActiveSlideInRange ==
    IF Len(slides) = 0
    THEN activeSlideIndex = 0
    ELSE 0 <= activeSlideIndex /\ activeSlideIndex < Len(slides)

\* C38 witness: the last slide of a deck of two is the active one.
C38_Witness ==
    /\ Len(slides) = 2
    /\ activeSlideIndex = 1


\* Most slides of a deck that is reordered.
MaxReorderSlides == 3

\* decks in state before a reorder: normalized slides with distinct ids
ReorderDecks ==
    UNION {{setSlides([i \in 1..n |->
                [id |-> "s" \o ToString(i), template |-> templates[i],
                 bullets |-> NoBullets, chartEnabled |-> Undefined,
                 chartSpec |-> "none"]]) :
              templates \in [1..n -> {"text-image", "quad-grid"}]} :
           n \in 0..MaxReorderSlides}

\* a deck in state with any of its slides active; nz holds one call of
\* reorderSlides: its arguments, the state before it and the keys notified
ReorderInit ==
    /\ slides \in ReorderDecks
    /\ activeSlideIndex \in 0..Max(0, Len(slides) - 1)
    /\ nz = [stage |-> "idle"]
    /\ ev = EvIdle
    /\ ui = UiUnused
    /\ sessions = <<>>
    /\ calls = <<>>
    /\ tasks = TasksIdle
    /\ save = SaveIdle

\* reorderSlides(from, to), state.js:66-74, with its notification
ReorderSlidesCall ==
    /\ nz.stage = "idle"
    /\ \E from \in -1..Len(slides), to \in -1..Len(slides) :
          LET applies == ReorderApplies(slides, from, to)
          IN  /\ slides' = IF applies THEN reorderSlides(slides, from, to) ELSE slides
              /\ activeSlideIndex' = IF applies THEN to ELSE activeSlideIndex
              /\ nz' = [stage |-> "reordered", from |-> from, to |-> to,
                        before |-> slides, activeBefore |-> activeSlideIndex,
                        notified |-> IF applies THEN <<"slides">> ELSE <<>>]
    /\ UNCHANGED <<bridgeVars, evVars, sessionVars>>

ReorderNext == ReorderSlidesCall

ReorderSpec == ReorderInit /\ [][ReorderNext]_vars

Without(deck, position) ==
    SubSeq(deck, 1, position - 1) \o SubSeq(deck, position + 1, Len(deck))

\* C39: reorderSlides(from, to) with both indices in range and different
\* leaves the deck a permutation of itself with the moved slide at index to
\* and the other slides in their order, and makes to the active index;
\* otherwise it changes neither the deck nor the active index and notifies
\* nobody.
C39_ReorderIsAMove ==
    nz.stage = "reordered" =>
        IF /\ nz.from # nz.to
           /\ nz.from \in 0..(Len(nz.before) - 1)
           /\ nz.to \in 0..(Len(nz.before) - 1)
        THEN /\ Len(slides) = Len(nz.before)
             /\ slides[nz.to + 1] = nz.before[nz.from + 1]
             /\ Without(slides, nz.to + 1) = Without(nz.before, nz.from + 1)
             /\ activeSlideIndex = nz.to
        ELSE /\ slides = nz.before
             /\ activeSlideIndex = nz.activeBefore
             /\ nz.notified = <<>>

\* C39 witness: the first slide of a deck of three was moved to the end
\* while the second was active.
C39_Witness ==
    /\ nz.stage = "reordered"
    /\ Len(nz.before) = 3
    /\ nz.from = 0
    /\ nz.to = 2
    /\ nz.activeBefore = 1
    /\ activeSlideIndex = 2
    /\ slides[3] = nz.before[1]
    /\ nz.notified = <<"slides">>

-----------------------------------------------------------------------------
(* The provenance of the slides *)

\* C40: when the summarizer returned at least one candidate and at most as
\* many candidates as the document has pages, every slide has a source page.
C40_EverySlideHasSourcePages ==
    (/\ nz.stage = "synthesized"
     /\ nz.candidates >= 1
     /\ nz.candidates <= Len(nz.pages)) =>
        \A i \in 1..nz.candidates : nz.sourcePages[i] # <<>>

====
